---- MODULE Spec2Model ----
(***************************************************************************)
(* Symptom analysis and comparison engine of the symptom backend, and the  *)
(* handlers that store the customers and their symptom records.            *)
(*                                                                         *)
(* The state is the content of the database tables the handlers read and   *)
(* write (customers, symptom_records, symptom_selections, symptoms with    *)
(* their symptom_tags) and the JSON body of the last response.             *)
(* Percentages are kept in hundredths of a percent (33.33 is 3333), which  *)
(* is exactly the precision round(x, 2) leaves.  Display strings are given *)
(* by ASCII                                                                *)
(* glosses of the Chinese literals of the source:                          *)
(*   risk_level  "high" / "medium" / "low"   for  高危 / 中危 / 低危        *)
(*   severity    "high" / "medium" / "low"   for  高 / 中 / 低              *)
(*   trend       "improving" / "worsening" / "stable" for 改善 / 加重 / 稳定*)
(*   tags        "toxin" 毒素, "nutrition" 营养, "habit" 习惯,              *)
(*               "circulation" 循环, "other" 其他                           *)
(*   priority    "high" / "medium" / "low"   for  高 / 中 / 低              *)
(*   category    "overall health" 整体健康, "detox" 排毒调理,               *)
(*               "nutrition improvement" 营养改善, "lifestyle" 生活习惯,    *)
(*               "gender specific" 性别专属                                 *)
(* Timestamps and the free text of the catalogue (names, descriptions) are *)
(* not part of the state.                                                  *)
(***************************************************************************)
EXTENDS Integers, Sequences, FiniteSets, TLC

VARIABLES customers, records, selections, symptoms, response

vars == <<customers, records, selections, symptoms, response>>

(***************************************************************************)
(* Bounds of the model.                                                    *)
(***************************************************************************)
\* ids handed to the classifier range over MinSymptomId-ClassifyMargin ..
\* MaxSymptomId+ClassifyMargin
ClassifyMargin == 5
\* largest number of selections of the analysed record (rows drawn in
\* ascending id order)
MaxSel == 10
\* largest number of selections of a record whose rows are drawn in every order
MaxPermLen == 2
\* largest number of selections of each of the two compared records
MaxCompareSel == 3

\* the largest number of further symptoms a record of SpecRecommend holds
MaxFill == 27

\* the largest id of a customer and of a record in the store of SpecStore
MaxStoreId == 2

(***************************************************************************)
(* Program constants.                                                      *)
(***************************************************************************)
\* lowest and highest id of the symptom catalogue
MinSymptomId == 1
MaxSymptomId == 300

\* the fixed area order of every loop over the six areas
AreaOrder == <<"red", "green", "white", "black", "yellow", "blue">>

KnownAreas == {AreaOrder[i] : i \in 1..Len(AreaOrder)}

(***************************************************************************)
(* Helpers standing for Python built-ins.                                  *)
(***************************************************************************)
Range(seq) == {seq[i] : i \in 1..Len(seq)}

Min(a, b) == IF a <= b THEN a ELSE b

\* abs(x)
Abs(x) == IF x < 0 THEN -x ELSE x

\* seq[:n]
Take(seq, n) == SubSeq(seq, 1, Min(n, Len(seq)))

RECURSIVE SumSeq(_)
SumSeq(seq) == IF seq = <<>> THEN 0 ELSE Head(seq) + SumSeq(Tail(seq))

\* round(num / den * 100, 2) in hundredths, den > 0: the nearest hundredth,
\* an exact tie going to the even one.
Round2Pct(num, den) ==
    LET n  == IF num < 0 THEN -num ELSE num
        q  == (n * 10000) \div den
        r  == (n * 10000) % den
        up == IF 2 * r > den \/ (2 * r = den /\ q % 2 = 1) THEN q + 1 ELSE q
    IN  IF num < 0 THEN -up ELSE up

\* list.sort(key=..., reverse=True) / sorted(..., reverse=True): descending
\* by key, elements of equal key keeping their order.  keys[i] is the key of
\* seq[i].
StableSortDesc(seq, keys) ==
    LET n == Len(seq)
        pos(i) == 1 + Cardinality({j \in 1..n :
                        keys[j] > keys[i] \/ (keys[j] = keys[i] /\ j < i)})
    IN  [p \in 1..n |-> seq[CHOOSE i \in 1..n : pos(i) = p]]

(***************************************************************************)
(* collections.Counter: a sequence of [key, count] entries in the order    *)
(* the keys were first counted (dict insertion order).                     *)
(***************************************************************************)
CounterKeys(c) == {c[i].key : i \in 1..Len(c)}

\* c.get(k, 0) / c[k]
CounterGet(c, k) ==
    IF k \in CounterKeys(c)
    THEN c[CHOOSE i \in 1..Len(c) : c[i].key = k].count
    ELSE 0

\* c[k] += 1
CounterInc(c, k) ==
    IF k \in CounterKeys(c)
    THEN [i \in 1..Len(c) |->
            IF c[i].key = k THEN [key |-> k, count |-> c[i].count + 1] ELSE c[i]]
    ELSE Append(c, [key |-> k, count |-> 1])

\* for k in keys: c[k] += 1
RECURSIVE CounterIncAll(_, _)
CounterIncAll(c, keys) ==
    IF keys = <<>> THEN c
    ELSE CounterIncAll(CounterInc(c, Head(keys)), Tail(keys))

\* the entries left in first-seen order, unsorted
Mut_most_common(c) == c

\* c.most_common(): entries by descending count, ties in insertion order
most_common(c) == StableSortDesc(c, [i \in 1..Len(c) |-> c[i].count])

\* c.most_common(n)
most_common_n(c, n) == Take(most_common(c), n)

\* sum(c.values())
CounterTotal(c) == SumSeq([i \in 1..Len(c) |-> c[i].count])

(***************************************************************************)
(* Area classifier (three copies of the same table in the source).         *)
(***************************************************************************)
\* the first band closed one id early
Mut_get_area_by_id(symptom_id) ==
    IF 1 <= symptom_id /\ symptom_id < 55 THEN "red"
    ELSE IF 56 <= symptom_id /\ symptom_id <= 109 THEN "green"
    ELSE IF 110 <= symptom_id /\ symptom_id <= 163 THEN "white"
    ELSE IF 164 <= symptom_id /\ symptom_id <= 212 THEN "black"
    ELSE IF 213 <= symptom_id /\ symptom_id <= 259 THEN "yellow"
    ELSE IF 260 <= symptom_id /\ symptom_id <= 300 THEN "blue"
    ELSE "unknown"

\* analysis.py
get_area_by_id(symptom_id) ==
    IF 1 <= symptom_id /\ symptom_id <= 55 THEN "red"
    ELSE IF 56 <= symptom_id /\ symptom_id <= 109 THEN "green"
    ELSE IF 110 <= symptom_id /\ symptom_id <= 163 THEN "white"
    ELSE IF 164 <= symptom_id /\ symptom_id <= 212 THEN "black"
    ELSE IF 213 <= symptom_id /\ symptom_id <= 259 THEN "yellow"
    ELSE IF 260 <= symptom_id /\ symptom_id <= 300 THEN "blue"
    ELSE "unknown"

\* records.py
determine_area(symptom_id) ==
    IF 1 <= symptom_id /\ symptom_id <= 55 THEN "red"
    ELSE IF 56 <= symptom_id /\ symptom_id <= 109 THEN "green"
    ELSE IF 110 <= symptom_id /\ symptom_id <= 163 THEN "white"
    ELSE IF 164 <= symptom_id /\ symptom_id <= 212 THEN "black"
    ELSE IF 213 <= symptom_id /\ symptom_id <= 259 THEN "yellow"
    ELSE IF 260 <= symptom_id /\ symptom_id <= 300 THEN "blue"
    ELSE "unknown"

\* compare.py
compare_get_area_by_id(symptom_id) ==
    IF 1 <= symptom_id /\ symptom_id <= 55 THEN "red"
    ELSE IF 56 <= symptom_id /\ symptom_id <= 109 THEN "green"
    ELSE IF 110 <= symptom_id /\ symptom_id <= 163 THEN "white"
    ELSE IF 164 <= symptom_id /\ symptom_id <= 212 THEN "black"
    ELSE IF 213 <= symptom_id /\ symptom_id <= 259 THEN "yellow"
    ELSE IF 260 <= symptom_id /\ symptom_id <= 300 THEN "blue"
    ELSE "unknown"

(***************************************************************************)
(* Database snapshots.                                                     *)
(***************************************************************************)
NoResponse == [op |-> "none"]

\* SymptomSelection.query.filter_by(record_id=record_id).all()
SelectionsOf(record_id) ==
    LET OfRecord(row) == row.record_id = record_id
    IN  SelectSeq(selections, OfRecord)

\* Symptom.query.get(symptom_id) is not None
SymptomExists(symptom_id) == symptom_id \in DOMAIN symptoms

\* [tag.tag for tag in symptom.tags]
TagsOf(symptom_id) == symptoms[symptom_id].tags

\* The catalogue of the snapshots: ids 1, 2 and 56 as the test fixture has
\* them (1 with two tags, 56 with none; the fixture also selects an id that
\* has no catalogue row), the rest as the importer stores them, with at least one
\* tag each.  Id 55 has no row.
SymptomCatalogue ==
    (1   :> [tags |-> <<"toxin", "habit">>]) @@
    (2   :> [tags |-> <<"nutrition">>]) @@
    (3   :> [tags |-> <<"circulation">>]) @@
    (4   :> [tags |-> <<"toxin">>]) @@
    (5   :> [tags |-> <<"nutrition">>]) @@
    (10  :> [tags |-> <<"toxin">>]) @@
    (56  :> [tags |-> <<>>]) @@
    (110 :> [tags |-> <<"nutrition", "toxin">>]) @@
    (164 :> [tags |-> <<"habit">>]) @@
    (213 :> [tags |-> <<"circulation">>]) @@
    (260 :> [tags |-> <<"other">>]) @@
    (300 :> [tags |-> <<"toxin", "circulation">>])

\* the customer of the test fixture
FixtureCustomers ==
    (1 :> [name |-> "test customer", gender |-> "male", age |-> 35,
           contact |-> "13800138000"])

\* the rows a submission stores for a list of symptom ids
SelectionRows(record_id, ids) ==
    [i \in 1..Len(ids) |->
        [record_id |-> record_id, symptom_id |-> ids[i],
         area |-> determine_area(ids[i])]]

RECURSIVE AscendingSeq(_)
AscendingSeq(S) ==
    IF S = {} THEN <<>>
    ELSE LET m == CHOOSE x \in S : \A y \in S : x <= y
         IN  <<m>> \o AscendingSeq(S \ {m})

\* sequences without repetition (one selection per symptom and record)
DistinctSeqs(S, maxLen) ==
    {s \in UNION {[1..n -> S] : n \in 0..maxLen} :
        \A i, j \in 1..Len(s) : i # j => s[i] # s[j]}

(***************************************************************************)
(* Distribution aggregator: GET analysis/summary/<record_id>.              *)
(***************************************************************************)
area_info ==
    [red    |-> [name |-> "red area",    description |-> "heart, small intestine"],
     green  |-> [name |-> "green area",  description |-> "liver, gallbladder"],
     white  |-> [name |-> "white area",  description |-> "lung, large intestine"],
     black  |-> [name |-> "black area",  description |-> "kidney, bladder"],
     yellow |-> [name |-> "yellow area", description |-> "spleen, stomach"],
     blue   |-> [name |-> "blue area",   description |-> "gynaecological"]]

\* area_counts: one Counter increment per selection, keyed by the classifier
AreaCounts(sels) ==
    CounterIncAll(<<>>, [i \in 1..Len(sels) |-> get_area_by_id(sels[i].symptom_id)])

\* the percentage truncated instead of rounded
Mut_Percentage(count, total) == IF total > 0 THEN (count * 10000) \div total ELSE 0

\* the share left as a fraction, not multiplied by 100
Mut_PercentageFraction(count, total) ==
    IF total > 0 THEN Round2Pct(count, 100 * total) ELSE 0

\* round(count / total * 100, 2) if total > 0 else 0
Percentage(count, total) == IF total > 0 THEN Round2Pct(count, total) ELSE 0

\* the thresholds taken as inclusive
Mut_RiskLevel(percentage) ==
    IF percentage >= 2000 THEN "high"
    ELSE IF percentage >= 1000 THEN "medium"
    ELSE "low"

\* the risk tier of one area, from its rounded percentage
RiskLevel(percentage) ==
    IF percentage > 2000 THEN "high"
    ELSE IF percentage > 1000 THEN "medium"
    ELSE "low"

\* area_statistics as appended, in the fixed area order
AreaStatistics(sels) ==
    LET area_counts == AreaCounts(sels)
        total_symptoms == Len(sels)
    IN  [i \in 1..Len(AreaOrder) |->
            LET area_code == AreaOrder[i]
                count == CounterGet(area_counts, area_code)
                percentage == Percentage(count, total_symptoms)
            IN  [area |-> area_code,
                 area_name |-> area_info[area_code].name,
                 description |-> area_info[area_code].description,
                 symptom_count |-> count,
                 percentage |-> percentage,
                 risk_level |-> RiskLevel(percentage)]]

\* the sort left out
Mut_SortAreaStatistics(stats) == stats

\* area_statistics.sort(key=lambda x: x['symptom_count'], reverse=True)
SortAreaStatistics(stats) ==
    StableSortDesc(stats, [i \in 1..Len(stats) |-> stats[i].symptom_count])

\* [area for area in area_statistics if area['symptom_count'] > 0][:3]
PrimaryAreas(stats) ==
    LET Selected(a) == a.symptom_count > 0
    IN  Take(SelectSeq(stats, Selected), 3)

\* every area summed, the filter on 15 left out
Mut_TotalPercentageHigh(stats) ==
    SumSeq([i \in 1..Len(stats) |-> stats[i].percentage])

\* sum(area['percentage'] for area in area_statistics if area['percentage'] > 15)
TotalPercentageHigh(stats) ==
    LET Over(a) == a.percentage > 1500
        over == SelectSeq(stats, Over)
    IN  SumSeq([i \in 1..Len(over) |-> over[i].percentage])

\* medium only above 30
Mut_OverallRisk(total_percentage_high) ==
    IF total_percentage_high > 4000 THEN "high"
    ELSE IF total_percentage_high > 3000 THEN "medium"
    ELSE "low"

\* '高危' if total_percentage_high > 40 else '中危' if total_percentage_high > 20
\* else '低危'
OverallRisk(total_percentage_high) ==
    IF total_percentage_high > 4000 THEN "high"
    ELSE IF total_percentage_high > 2000 THEN "medium"
    ELSE "low"

NotFound(op) == [op |-> op, code |-> 404]

\* the body of the summary response, as computed from the rows the query
\* returned, in the order it returned them
SummaryData(record_id, sels) ==
    LET area_statistics == SortAreaStatistics(AreaStatistics(sels))
    IN  [record_id |-> record_id,
         customer_id |-> records[record_id].customer_id,
         total_symptoms |-> Len(sels),
         area_distribution |-> area_statistics,
         primary_areas |-> PrimaryAreas(area_statistics),
         overall_risk_level |-> OverallRisk(TotalPercentageHigh(area_statistics)),
         note |-> records[record_id].note]

get_analysis_summary(record_id) ==
    /\ IF record_id \notin DOMAIN records
       THEN response' = NotFound("summary")
       ELSE response' = [op |-> "summary", code |-> 200,
                         data |-> SummaryData(record_id, SelectionsOf(record_id))]
    /\ UNCHANGED <<customers, records, selections, symptoms>>

(***************************************************************************)
(* Causal tag analyzer: GET analysis/causes/<record_id>.                   *)
(***************************************************************************)
\* one pass of the loop over the selections: a selection whose symptom has
\* no catalogue row is skipped
RECURSIVE CountTags(_, _)
CountTags(sels, st) ==
    IF sels = <<>> THEN st
    ELSE LET symptom_id == Head(sels).symptom_id
         IN  IF ~SymptomExists(symptom_id) THEN CountTags(Tail(sels), st)
             ELSE LET tags == TagsOf(symptom_id)
                      area == get_area_by_id(symptom_id)
                      seen == IF area \in DOMAIN st.area_tag_counts
                              THEN st.area_tag_counts[area] ELSE <<>>
                  IN  CountTags(Tail(sels),
                        [tag_counts |-> CounterIncAll(st.tag_counts, tags),
                         area_tag_counts |->
                            [a \in DOMAIN st.area_tag_counts \cup {area} |->
                                IF a = area THEN CounterIncAll(seen, tags)
                                ELSE st.area_tag_counts[a]]])

TagCounting(sels) == CountTags(sels, [tag_counts |-> <<>>, area_tag_counts |-> <<>>])

\* the thresholds taken as inclusive
Mut_Severity(percentage) ==
    IF percentage >= 3000 THEN "high"
    ELSE IF percentage >= 1500 THEN "medium"
    ELSE "low"

Severity(percentage) ==
    IF percentage > 3000 THEN "high"
    ELSE IF percentage > 1500 THEN "medium"
    ELSE "low"

\* tag_percentages
TagPercentages(tag_counts, total_symptoms) ==
    LET common == most_common(tag_counts)
    IN  [i \in 1..Len(common) |->
            LET percentage == Percentage(common[i].count, total_symptoms)
            IN  [tag |-> common[i].key,
                 count |-> common[i].count,
                 percentage |-> percentage,
                 severity |-> Severity(percentage)]]

\* the entry of one area of area_analysis
AreaAnalysisEntry(area_code, area_tags) ==
    LET total_area_symptoms == CounterTotal(area_tags)
        top == most_common_n(area_tags, 3)
    IN  [area |-> area_code,
         area_name |-> area_info[area_code].name,
         total_symptoms |-> total_area_symptoms,
         top_tags |-> [i \in 1..Len(top) |->
                         [tag |-> top[i].key,
                          count |-> top[i].count,
                          percentage |-> Percentage(top[i].count, total_area_symptoms)]]]

\* area_analysis: the areas that have a Counter, in the fixed area order
AreaAnalysis(area_tag_counts) ==
    LET Present(area_code) == area_code \in DOMAIN area_tag_counts
        present == SelectSeq(AreaOrder, Present)
    IN  [i \in 1..Len(present) |->
            AreaAnalysisEntry(present[i], area_tag_counts[present[i]])]

get_tag_description(tag) ==
    CASE tag = "nutrition"   -> "unbalanced or missing nutrients"
      [] tag = "toxin"       -> "toxins affecting body functions"
      [] tag = "habit"       -> "problems caused by bad habits"
      [] tag = "circulation" -> "blood or lymph circulation problems"
      [] tag = "other"       -> "other unclassified causes"
      [] OTHER               -> "unknown cause"

\* main_problem_types; impact_score = percentage / 10 is kept in thousandths,
\* which is the percentage in hundredths
MainProblemTypes(tag_percentages) ==
    LET top == Take(tag_percentages, 5)
    IN  [i \in 1..Len(top) |->
            [type |-> top[i].tag,
             description |-> get_tag_description(top[i].tag),
             impact_score |-> top[i].percentage]]

\* the empty-selection case left out
Mut_generate_causes_summary_NoEmpty(tag_counts, total_symptoms) ==
    LET top_tags == most_common_n(tag_counts, 2)
    IN  IF top_tags = <<>> THEN [phrase |-> "causes unclear"]
        ELSE IF Len(top_tags) > 1
        THEN [phrase |-> "two tags",
              tag1 |-> top_tags[1].key,
              percentage1 |-> Round2Pct(top_tags[1].count, total_symptoms),
              tag2 |-> top_tags[2].key,
              percentage2 |-> Round2Pct(top_tags[2].count, total_symptoms)]
        ELSE [phrase |-> "one tag",
              tag1 |-> top_tags[1].key,
              percentage1 |-> Round2Pct(top_tags[1].count, total_symptoms)]

\* the second tag never named (len(top_tags) > 2 for > 1)
Mut_generate_causes_summary_OneTag(tag_counts, total_symptoms) ==
    IF total_symptoms = 0 THEN [phrase |-> "no data"]
    ELSE LET top_tags == most_common_n(tag_counts, 2)
         IN  IF top_tags = <<>> THEN [phrase |-> "causes unclear"]
             ELSE [phrase |-> "one tag",
                   tag1 |-> top_tags[1].key,
                   percentage1 |-> Round2Pct(top_tags[1].count, total_symptoms)]

\* the summary sentence, by its phrasing and the values it interpolates
generate_causes_summary(tag_counts, total_symptoms) ==
    IF total_symptoms = 0 THEN [phrase |-> "no data"]
    ELSE LET top_tags == most_common_n(tag_counts, 2)
         IN  IF top_tags = <<>> THEN [phrase |-> "causes unclear"]
             ELSE IF Len(top_tags) > 1
             THEN [phrase |-> "two tags",
                   tag1 |-> top_tags[1].key,
                   percentage1 |-> Round2Pct(top_tags[1].count, total_symptoms),
                   tag2 |-> top_tags[2].key,
                   percentage2 |-> Round2Pct(top_tags[2].count, total_symptoms)]
             ELSE [phrase |-> "one tag",
                   tag1 |-> top_tags[1].key,
                   percentage1 |-> Round2Pct(top_tags[1].count, total_symptoms)]

\* the body of the causes response, as computed from the rows the query
\* returned, in the order it returned them
CausesData(record_id, sels) ==
    LET counted == TagCounting(sels)
        total_symptoms == Len(sels)
        tag_percentages == TagPercentages(counted.tag_counts, total_symptoms)
    IN  [record_id |-> record_id,
         total_symptoms |-> total_symptoms,
         tag_distribution |-> tag_percentages,
         area_tag_analysis |-> AreaAnalysis(counted.area_tag_counts),
         main_problem_types |-> MainProblemTypes(tag_percentages),
         summary |-> generate_causes_summary(counted.tag_counts, total_symptoms)]

get_causes_analysis(record_id) ==
    /\ IF record_id \notin DOMAIN records
       THEN response' = NotFound("causes")
       ELSE response' = [op |-> "causes", code |-> 200,
                         data |-> CausesData(record_id, SelectionsOf(record_id))]
    /\ UNCHANGED <<customers, records, selections, symptoms>>

(***************************************************************************)
(* Record comparator: GET analysis/compare/<id1>/<id2> and                 *)
(* GET compare/records/<a>/<b>.                                            *)
(***************************************************************************)
get_area_name(area_code) ==
    CASE area_code = "red"    -> "red area (heart, small intestine)"
      [] area_code = "green"  -> "green area (liver, gallbladder)"
      [] area_code = "white"  -> "white area (lung, large intestine)"
      [] area_code = "black"  -> "black area (kidney, bladder)"
      [] area_code = "yellow" -> "yellow area (spleen, stomach)"
      [] area_code = "blue"   -> "blue area (gynaecological)"
      [] OTHER                -> "unknown area"

\* set([s.symptom_id for s in selections])
SymptomIds(sels) == {sels[i].symptom_id : i \in 1..Len(sels)}

\* get_symptom_details: one entry per id that has a catalogue row.  The list
\* follows the iteration order of a Python set, which the response does not
\* fix; it is kept as the set of its entries.
get_symptom_details(symptom_ids) ==
    {[id |-> symptom_id,
      area |-> get_area_by_id(symptom_id),
      area_name |-> get_area_name(get_area_by_id(symptom_id))] :
        symptom_id \in {x \in symptom_ids : SymptomExists(x)}}

\* the difference taken the wrong way round
Mut_AddedSymptoms(symptom_ids1, symptom_ids2) == symptom_ids1 \ symptom_ids2

\* symptom_ids2 - symptom_ids1
AddedSymptoms(symptom_ids1, symptom_ids2) == symptom_ids2 \ symptom_ids1

\* symptom_ids1 - symptom_ids2
RemovedSymptoms(symptom_ids1, symptom_ids2) == symptom_ids1 \ symptom_ids2

\* symptom_ids1 & symptom_ids2
CommonSymptoms(symptom_ids1, symptom_ids2) == symptom_ids1 \cap symptom_ids2

\* no change labelled as an improvement
Mut_Trend(change) ==
    IF change <= 0 THEN "improving"
    ELSE "worsening"

\* '改善' if change < 0 else '加重' if change > 0 else '稳定'
Trend(change) ==
    IF change < 0 THEN "improving"
    ELSE IF change > 0 THEN "worsening"
    ELSE "stable"

\* an area without symptoms in the first record rated 100 whatever the change
Mut_PercentageChange(change, count1) ==
    IF count1 > 0 THEN Round2Pct(change, count1) ELSE 10000

\* round(change / count1 * 100, 2) if count1 > 0 else (100 if change > 0 else 0)
PercentageChange(change, count1) ==
    IF count1 > 0 THEN Round2Pct(change, count1)
    ELSE IF change > 0 THEN 10000 ELSE 0

\* len([s for s in sels if get_area_by_id(s.symptom_id) == area_code])
AreaCount(sels, area_code) ==
    LET InArea(s) == get_area_by_id(s.symptom_id) = area_code
    IN  Len(SelectSeq(sels, InArea))

\* the change of an area taken as its size, without sign
Mut_AreaChanges(selections1, selections2) ==
    [area_code \in KnownAreas |->
        LET count1 == AreaCount(selections1, area_code)
            count2 == AreaCount(selections2, area_code)
            change == IF count2 >= count1 THEN count2 - count1 ELSE count1 - count2
        IN  [area_name |-> get_area_name(area_code),
             count1 |-> count1,
             count2 |-> count2,
             change |-> change,
             percentage_change |-> PercentageChange(change, count1),
             trend |-> Trend(change)]]

\* area_changes of analysis.compare_records
AreaChanges(selections1, selections2) ==
    [area_code \in KnownAreas |->
        LET count1 == AreaCount(selections1, area_code)
            count2 == AreaCount(selections2, area_code)
            change == count2 - count1
        IN  [area_name |-> get_area_name(area_code),
             count1 |-> count1,
             count2 |-> count2,
             change |-> change,
             percentage_change |-> PercentageChange(change, count1),
             trend |-> Trend(change)]]

\* the two rates taken over the size of the second record
Mut_ComparisonSummary(selections1, selections2, added_symptoms, removed_symptoms) ==
    LET total_change == Len(selections2) - Len(selections1)
    IN  [total_symptoms1 |-> Len(selections1),
         total_symptoms2 |-> Len(selections2),
         net_change |-> total_change,
         overall_trend |-> Trend(total_change),
         improvement_rate |->
             IF Len(selections2) > 0
             THEN Round2Pct(Cardinality(removed_symptoms), Len(selections2)) ELSE 0,
         worsening_rate |->
             IF Len(selections2) > 0
             THEN Round2Pct(Cardinality(added_symptoms), Len(selections2)) ELSE 0]

\* comparison_summary
ComparisonSummary(selections1, selections2, added_symptoms, removed_symptoms) ==
    LET total_change == Len(selections2) - Len(selections1)
    IN  [total_symptoms1 |-> Len(selections1),
         total_symptoms2 |-> Len(selections2),
         net_change |-> total_change,
         overall_trend |-> Trend(total_change),
         improvement_rate |->
             IF Len(selections1) > 0
             THEN Round2Pct(Cardinality(removed_symptoms), Len(selections1)) ELSE 0,
         worsening_rate |->
             IF Len(selections1) > 0
             THEN Round2Pct(Cardinality(added_symptoms), Len(selections1)) ELSE 0]

\* visualization_data
VisualizationData(area_changes, added_symptoms, removed_symptoms, common_symptoms) ==
    [area_charts |->
        [i \in 1..Len(AreaOrder) |->
            [area |-> AreaOrder[i],
             area_name |-> get_area_name(AreaOrder[i]),
             values |-> <<[record |-> "first", count |-> area_changes[AreaOrder[i]].count1],
                          [record |-> "second", count |-> area_changes[AreaOrder[i]].count2]>>]],
     change_chart |->
        <<[type |-> "added", count |-> Cardinality(added_symptoms)],
          [type |-> "removed", count |-> Cardinality(removed_symptoms)],
          [type |-> "common", count |-> Cardinality(common_symptoms)]>>]

\* the body of the response of analysis.compare_records for two records of
\* one customer
CompareRecordsData(record_id1, record_id2) ==
    LET customer_id == records[record_id1].customer_id
        selections1 == SelectionsOf(record_id1)
        selections2 == SelectionsOf(record_id2)
        symptom_ids1 == SymptomIds(selections1)
        symptom_ids2 == SymptomIds(selections2)
        added_symptoms == AddedSymptoms(symptom_ids1, symptom_ids2)
        removed_symptoms == RemovedSymptoms(symptom_ids1, symptom_ids2)
        common_symptoms == CommonSymptoms(symptom_ids1, symptom_ids2)
        area_changes == AreaChanges(selections1, selections2)
    IN  [customer_id |-> customer_id,
         customer_name |-> customers[customer_id].name,
         record1_id |-> record_id1,
         record2_id |-> record_id2,
         comparison_summary |->
             ComparisonSummary(selections1, selections2,
                               added_symptoms, removed_symptoms),
         added_symptoms |-> get_symptom_details(added_symptoms),
         removed_symptoms |-> get_symptom_details(removed_symptoms),
         common_symptoms |-> get_symptom_details(common_symptoms),
         area_changes |-> area_changes,
         visualization_data |->
             VisualizationData(area_changes, added_symptoms,
                               removed_symptoms, common_symptoms)]

\* the check that both records belong to one customer left out
Mut_compare_records(record_id1, record_id2) ==
    /\ IF record_id1 \notin DOMAIN records \/ record_id2 \notin DOMAIN records
       THEN response' = NotFound("compare_records")
       ELSE IF records[record_id1].customer_id \notin DOMAIN customers
       THEN response' = NotFound("compare_records")
       ELSE response' = [op |-> "compare_records", code |-> 200,
                         data |-> CompareRecordsData(record_id1, record_id2)]
    /\ UNCHANGED <<customers, records, selections, symptoms>>

compare_records(record_id1, record_id2) ==
    /\ IF record_id1 \notin DOMAIN records \/ record_id2 \notin DOMAIN records
       THEN response' = NotFound("compare_records")
       ELSE IF records[record_id1].customer_id # records[record_id2].customer_id
       THEN response' = [op |-> "compare_records", code |-> 400]
       ELSE IF records[record_id1].customer_id \notin DOMAIN customers
       THEN response' = NotFound("compare_records")
       ELSE response' = [op |-> "compare_records", code |-> 200,
                         data |-> CompareRecordsData(record_id1, record_id2)]
    /\ UNCHANGED <<customers, records, selections, symptoms>>

\* len([s for s in sels if get_area_by_id(s.symptom_id) == area_code]), compare.py
CompareAreaCount(sels, area_code) ==
    LET InArea(s) == compare_get_area_by_id(s.symptom_id) = area_code
    IN  Len(SelectSeq(sels, InArea))

\* the rate of change cut off after the second decimal instead of rounded
Mut_CompareAreaChanges(selections_a, selections_b) ==
    [area_code \in KnownAreas |->
        LET count_a == CompareAreaCount(selections_a, area_code)
            count_b == CompareAreaCount(selections_b, area_code)
            change == count_b - count_a
        IN  [area_name |-> area_info[area_code].name,
             count_a |-> count_a,
             count_b |-> count_b,
             change |-> change,
             percentage_change |->
                 IF count_a > 0
                 THEN (IF change < 0 THEN -1 ELSE 1) *
                          ((Abs(change) * 10000) \div count_a)
                 ELSE IF change > 0 THEN 10000 ELSE 0,
             trend |-> Trend(change)]]

\* area_changes of compare.compare_two_records
CompareAreaChanges(selections_a, selections_b) ==
    [area_code \in KnownAreas |->
        LET count_a == CompareAreaCount(selections_a, area_code)
            count_b == CompareAreaCount(selections_b, area_code)
            change == count_b - count_a
        IN  [area_name |-> area_info[area_code].name,
             count_a |-> count_a,
             count_b |-> count_b,
             change |-> change,
             percentage_change |-> PercentageChange(change, count_a),
             trend |-> Trend(change)]]

\* the body of the response of compare.compare_two_records for two records
\* of one customer
CompareTwoRecordsData(record_a_id, record_b_id) ==
    LET customer_id == records[record_a_id].customer_id
        selections_a == SelectionsOf(record_a_id)
        selections_b == SelectionsOf(record_b_id)
        symptom_ids_a == SymptomIds(selections_a)
        symptom_ids_b == SymptomIds(selections_b)
        added_symptoms == symptom_ids_b \ symptom_ids_a
        removed_symptoms == symptom_ids_a \ symptom_ids_b
        common_symptoms == symptom_ids_a \cap symptom_ids_b
        total_change == Len(selections_b) - Len(selections_a)
    IN  [customer_id |-> customer_id,
         customer_name |-> customers[customer_id].name,
         record_a_id |-> record_a_id,
         record_b_id |-> record_b_id,
         total_symptoms_a |-> Len(selections_a),
         total_symptoms_b |-> Len(selections_b),
         net_change |-> total_change,
         overall_trend |-> Trend(total_change),
         added_count |-> Cardinality(added_symptoms),
         removed_count |-> Cardinality(removed_symptoms),
         common_count |-> Cardinality(common_symptoms),
         area_changes |-> CompareAreaChanges(selections_a, selections_b)]

compare_two_records(record_a_id, record_b_id) ==
    /\ IF record_a_id \notin DOMAIN records \/ record_b_id \notin DOMAIN records
       THEN response' = NotFound("compare_two_records")
       ELSE IF records[record_a_id].customer_id # records[record_b_id].customer_id
       THEN response' = [op |-> "compare_two_records", code |-> 400]
       ELSE IF records[record_a_id].customer_id \notin DOMAIN customers
       THEN response' = NotFound("compare_two_records")
       ELSE response' = [op |-> "compare_two_records", code |-> 200,
                         data |-> CompareTwoRecordsData(record_a_id, record_b_id)]
    /\ UNCHANGED <<customers, records, selections, symptoms>>

(***************************************************************************)
(* Specification SpecClassify: the classifier applied to every id.         *)
(***************************************************************************)
ClassifyIds == (MinSymptomId - ClassifyMargin)..(MaxSymptomId + ClassifyMargin)

InitClassify ==
    /\ customers = <<>>
    /\ records = <<>>
    /\ selections = <<>>
    /\ symptoms = SymptomCatalogue
    /\ response = NoResponse

ClassifyAnalysis(symptom_id) ==
    /\ response' = [op |-> "get_area_by_id", symptom_id |-> symptom_id,
                    area |-> get_area_by_id(symptom_id)]
    /\ UNCHANGED <<customers, records, selections, symptoms>>

ClassifyRecords(symptom_id) ==
    /\ response' = [op |-> "determine_area", symptom_id |-> symptom_id,
                    area |-> determine_area(symptom_id)]
    /\ UNCHANGED <<customers, records, selections, symptoms>>

ClassifyCompare(symptom_id) ==
    /\ response' = [op |-> "compare.get_area_by_id", symptom_id |-> symptom_id,
                    area |-> compare_get_area_by_id(symptom_id)]
    /\ UNCHANGED <<customers, records, selections, symptoms>>

NextClassify ==
    \E symptom_id \in ClassifyIds :
        \/ ClassifyAnalysis(symptom_id)
        \/ ClassifyRecords(symptom_id)
        \/ ClassifyCompare(symptom_id)

SpecClassify == InitClassify /\ [][NextClassify]_vars

(***************************************************************************)
(* Specification SpecAnalysis: the summary and the causes analysis of one  *)
(* stored record.  The record's selections are drawn from AnalysisPool:    *)
(* every subset of at most MaxSel ids as rows in ascending id order, and   *)
(* every repetition-free list of at most MaxPermLen ids in every order.    *)
(* Id 301 stands for a row outside the catalogue range, which the handlers *)
(* classify as 'unknown'.                                                  *)
(***************************************************************************)
AnalysisPool == {1, 5, 10, 55, 56, 110, 164, 213, 260, 300, 301}

AnalysisSelections ==
    {AscendingSeq(S) : S \in {T \in SUBSET AnalysisPool : Cardinality(T) <= MaxSel}}
    \cup DistinctSeqs(AnalysisPool, MaxPermLen)

\* record ids a request may name: the stored record and one that is absent
AnalysisRecordIds == {1, 2}

InitAnalysis ==
    /\ customers = FixtureCustomers
    /\ \E ids \in AnalysisSelections :
          /\ records = (1 :> [customer_id |-> 1, symptom_count |-> Len(ids),
                              note |-> ""])
          /\ selections = SelectionRows(1, ids)
    /\ symptoms = SymptomCatalogue
    /\ response = NoResponse

NextAnalysis ==
    \E record_id \in AnalysisRecordIds :
        \/ get_analysis_summary(record_id)
        \/ get_causes_analysis(record_id)

SpecAnalysis == InitAnalysis /\ [][NextAnalysis]_vars

(***************************************************************************)
(* Specification SpecCompare: the two comparison routes over a store of    *)
(* three records.  Records 1 and 2 belong to customer 1 and hold every     *)
(* pair of subsets of at most MaxCompareSel ids of ComparePool; record 3   *)
(* belongs to customer 2; no record 4 is stored.                           *)
(***************************************************************************)
ComparePool == {1, 2, 3, 4, 55, 56}

CompareSelections ==
    {AscendingSeq(S) : S \in {T \in SUBSET ComparePool : Cardinality(T) <= MaxCompareSel}}

CompareRecordIds == {1, 2, 3, 4}

CompareCustomers ==
    FixtureCustomers @@
    (2 :> [name |-> "second customer", gender |-> "female", age |-> 50,
           contact |-> "13800138002"])

InitCompare ==
    /\ customers = CompareCustomers
    /\ \E ids1, ids2 \in CompareSelections :
          /\ records =
                (1 :> [customer_id |-> 1, symptom_count |-> Len(ids1), note |-> ""]) @@
                (2 :> [customer_id |-> 1, symptom_count |-> Len(ids2), note |-> ""]) @@
                (3 :> [customer_id |-> 2, symptom_count |-> 1, note |-> ""])
          /\ selections = SelectionRows(1, ids1) \o SelectionRows(2, ids2)
                             \o SelectionRows(3, <<260>>)
    /\ symptoms = SymptomCatalogue
    /\ response = NoResponse

NextCompare ==
    \E id1, id2 \in CompareRecordIds :
        \/ compare_records(id1, id2)
        \/ compare_two_records(id1, id2)

SpecCompare == InitCompare /\ [][NextCompare]_vars

(***************************************************************************)
(* Recommendation generator: GET analysis/recommendations/<record_id>.     *)
(* A recommendation is [category, priority, recommendation, action_items]; *)
(* the sentence 'recommendation' is kept as its template and the values    *)
(* it interpolates.                                                        *)
(***************************************************************************)
\* The Counter that results from counting, list after list and key after
\* key, the keys of a list of key lists: its keys in the order they are
\* first counted, each with the number of its occurrences.  (The loop over
\* the selections written without recursion: a record of SpecRecommend
\* holds more than thirty rows.)
CounterOfLists(lists) ==
    LET n == Len(lists)
        keys == UNION {Range(lists[i]) : i \in 1..n}
        places == UNION {{<<i, j>> : j \in 1..Len(lists[i])} : i \in 1..n}
        FirstList(k) == CHOOSE i \in 1..n :
                            /\ k \in Range(lists[i])
                            /\ \A h \in 1..(i - 1) : k \notin Range(lists[h])
        FirstPlace(k, i) == CHOOSE j \in 1..Len(lists[i]) :
                                /\ lists[i][j] = k
                                /\ \A h \in 1..(j - 1) : lists[i][h] # k
        Count(k) == Cardinality({pl \in places : lists[pl[1]][pl[2]] = k})
        seen == {LET i == FirstList(k)
                 IN  [key |-> k, count |-> Count(k),
                      list |-> i, place |-> FirstPlace(k, i)] : k \in keys}
        Before(u, e) == \/ u.list < e.list
                        \/ u.list = e.list /\ u.place < e.place
        counter == [p \in 1..Cardinality(seen) |->
                      LET e == CHOOSE u \in seen :
                                  Cardinality({v \in seen : Before(v, u)}) = p - 1
                      IN  [key |-> e.key, count |-> e.count]]
    IN  SubSeq(counter, 1, Len(counter))

\* tag_counts and area_counts after the loop over the selections: tags and
\* areas are counted for the symptoms that have a catalogue row
RecommendCounting(sels) ==
    LET Known(row) == SymptomExists(row.symptom_id)
        rows == SelectSeq(sels, Known)
    IN  [tag_counts |->
            CounterOfLists([i \in 1..Len(rows) |-> TagsOf(rows[i].symptom_id)]),
         area_counts |->
            CounterOfLists([i \in 1..Len(rows) |->
                               <<get_area_by_id(rows[i].symptom_id)>>])]

\* the band limits taken as inclusive
Mut_VolumeRule(total_symptoms) ==
    IF total_symptoms >= 30
    THEN [category |-> "overall health", priority |-> "high",
          recommendation |-> [template |-> "many symptoms"],
          action_items |-> <<"book a full check-up", "make a long-term health plan",
                             "consider professional health management">>]
    ELSE IF total_symptoms >= 15
    THEN [category |-> "overall health", priority |-> "medium",
          recommendation |-> [template |-> "moderate number of symptoms"],
          action_items |-> <<"condition the main problem areas", "improve habits",
                             "regular re-examination">>]
    ELSE [category |-> "overall health", priority |-> "low",
          recommendation |-> [template |-> "few symptoms"],
          action_items |-> <<"keep a healthy lifestyle", "regular self-check",
                             "watch early warning signs">>]

\* 1. the recommendation on the number of selections
VolumeRule(total_symptoms) ==
    IF total_symptoms > 30
    THEN [category |-> "overall health", priority |-> "high",
          recommendation |-> [template |-> "many symptoms"],
          action_items |-> <<"book a full check-up", "make a long-term health plan",
                             "consider professional health management">>]
    ELSE IF total_symptoms > 15
    THEN [category |-> "overall health", priority |-> "medium",
          recommendation |-> [template |-> "moderate number of symptoms"],
          action_items |-> <<"condition the main problem areas", "improve habits",
                             "regular re-examination">>]
    ELSE [category |-> "overall health", priority |-> "low",
          recommendation |-> [template |-> "few symptoms"],
          action_items |-> <<"keep a healthy lifestyle", "regular self-check",
                             "watch early warning signs">>]

\* 2. the recommendation of one top tag: a list of one element, or empty
TagRule(tag, percentage) ==
    CASE tag = "toxin" ->
            <<[category |-> "detox",
               priority |-> IF percentage > 2500 THEN "high" ELSE "medium",
               recommendation |-> [template |-> "toxin share", percentage |-> percentage],
               action_items |-> <<"more dietary fibre", "drink more water",
                                  "exercise and sweat", "avoid environmental toxins">>]>>
      [] tag = "nutrition" ->
            <<[category |-> "nutrition improvement",
               priority |-> IF percentage > 2500 THEN "high" ELSE "medium",
               recommendation |-> [template |-> "nutrition share",
                                   percentage |-> percentage],
               action_items |-> <<"balanced diet", "vitamin and mineral supplements",
                                  "regular nutrition assessment">>]>>
      [] tag = "habit" ->
            <<[category |-> "lifestyle",
               priority |-> "medium",
               recommendation |-> [template |-> "habit share", percentage |-> percentage],
               action_items |-> <<"regular schedule", "moderate exercise",
                                  "fewer late nights", "manage stress">>]>>
      [] OTHER -> <<>>

\* the lists of a list of lists, joined in order
RECURSIVE Flatten(_)
Flatten(seqs) == IF seqs = <<>> THEN <<>> ELSE Head(seqs) \o Flatten(Tail(seqs))

\* the recommendations of tag_counts.most_common(3), in rank order
TagRules(tag_counts, total_symptoms) ==
    LET top_tags == most_common_n(tag_counts, 3)
    IN  Flatten([i \in 1..Len(top_tags) |->
                    TagRule(top_tags[i].key,
                            Percentage(top_tags[i].count, total_symptoms))])

\* area_info of get_recommendations: body system, focus, and the two action
\* items built from them
recommend_area_info ==
    [red    |-> [name |-> "heart, small intestine system",
                 focus |-> "cardiovascular health, blood circulation"],
     green  |-> [name |-> "liver, gallbladder system",
                 focus |-> "detoxification, emotion management"],
     white  |-> [name |-> "lung, large intestine system",
                 focus |-> "respiratory health, bowel function"],
     black  |-> [name |-> "kidney, bladder system",
                 focus |-> "urinary health, water metabolism"],
     yellow |-> [name |-> "spleen, stomach system",
                 focus |-> "digestion and absorption, immune regulation"],
     blue   |-> [name |-> "gynaecological system",
                 focus |-> "endocrine balance, reproductive health"]]

\* the two action items of an area recommendation, which name the area's
\* body system and focus
AreaActionItems(area_code) ==
    CASE area_code = "red" ->
            <<"special check of the heart, small intestine system",
              "conditioning plan for cardiovascular health, blood circulation">>
      [] area_code = "green" ->
            <<"special check of the liver, gallbladder system",
              "conditioning plan for detoxification, emotion management">>
      [] area_code = "white" ->
            <<"special check of the lung, large intestine system",
              "conditioning plan for respiratory health, bowel function">>
      [] area_code = "black" ->
            <<"special check of the kidney, bladder system",
              "conditioning plan for urinary health, water metabolism">>
      [] area_code = "yellow" ->
            <<"special check of the spleen, stomach system",
              "conditioning plan for digestion and absorption, immune regulation">>
      [] area_code = "blue" ->
            <<"special check of the gynaecological system",
              "conditioning plan for endocrine balance, reproductive health">>

\* the threshold taken as 25, that of the tag rules
Mut_AreaRule(area_code, percentage) ==
    IF area_code \in DOMAIN recommend_area_info
    THEN <<[category |-> recommend_area_info[area_code].name,
            priority |-> IF percentage > 2500 THEN "high" ELSE "medium",
            recommendation |-> [template |-> "area share",
                                name |-> recommend_area_info[area_code].name,
                                percentage |-> percentage,
                                focus |-> recommend_area_info[area_code].focus],
            action_items |-> AreaActionItems(area_code)]>>
    ELSE <<>>

\* 3. the recommendation of one top area: a list of one element, or empty
\* for an area code outside the table
AreaRule(area_code, percentage) ==
    IF area_code \in DOMAIN recommend_area_info
    THEN <<[category |-> recommend_area_info[area_code].name,
            priority |-> IF percentage > 2000 THEN "high" ELSE "medium",
            recommendation |-> [template |-> "area share",
                                name |-> recommend_area_info[area_code].name,
                                percentage |-> percentage,
                                focus |-> recommend_area_info[area_code].focus],
            action_items |-> AreaActionItems(area_code)]>>
    ELSE <<>>

\* the recommendations of area_counts.most_common(2), in rank order
AreaRules(area_counts, total_symptoms) ==
    LET top_areas == most_common_n(area_counts, 2)
    IN  Flatten([i \in 1..Len(top_areas) |->
                    AreaRule(top_areas[i].key,
                             Percentage(top_areas[i].count, total_symptoms))])

\* the age of 45 put into the middle-aged group
Mut_age_group(age) ==
    IF 18 <= age /\ age < 45 THEN "young adult"
    ELSE IF 45 <= age /\ age <= 65 THEN "middle-aged"
    ELSE "senior"

age_group(age) ==
    IF 18 <= age /\ age <= 45 THEN "young adult"
    ELSE IF 46 <= age /\ age <= 65 THEN "middle-aged"
    ELSE "senior"

\* the demographic recommendation given the priority low
Mut_DemographicRule(customer) ==
    [category |-> "gender specific", priority |-> "low",
     recommendation |-> [template |-> customer.gender,
                         age_group |-> age_group(customer.age)],
     action_items |-> <<>>]

\* 4. the recommendation on the customer's gender and age
DemographicRule(customer) ==
    IF customer.gender = "female"
    THEN [category |-> "gender specific", priority |-> "medium",
          recommendation |-> [template |-> "female", age_group |-> age_group(customer.age)],
          action_items |-> <<"regular gynaecological check", "watch the menstrual cycle",
                             "calcium for the bones">>]
    ELSE [category |-> "gender specific", priority |-> "medium",
          recommendation |-> [template |-> "male", age_group |-> age_group(customer.age)],
          action_items |-> <<"regular cardiovascular check", "watch prostate health",
                             "control weight and blood lipids">>]

\* priority_order.get(priority, 0)
priority_order(priority) ==
    CASE priority = "high"   -> 3
      [] priority = "medium" -> 2
      [] priority = "low"    -> 1
      [] OTHER               -> 0

\* the list left in emission order
Mut_SortRecommendations(recommendations) == recommendations

\* recommendations.sort(key=priority rank, reverse=True)
SortRecommendations(recommendations) ==
    StableSortDesc(recommendations,
                   [i \in 1..Len(recommendations) |->
                       priority_order(recommendations[i].priority)])

\* the recommendations in the order the four rules append them
EmittedRecommendations(customer, sels) ==
    LET counted == RecommendCounting(sels)
        total_symptoms == Len(sels)
    IN  <<VolumeRule(total_symptoms)>>
        \o TagRules(counted.tag_counts, total_symptoms)
        \o AreaRules(counted.area_counts, total_symptoms)
        \o <<DemographicRule(customer)>>

\* every action item of a recommendation taken, not the first two
Mut_generate_action_plan(recommendations) ==
    LET High(r) == r.priority = "high"
        Medium(r) == r.priority = "medium"
        high_priority == Take(SelectSeq(recommendations, High), 2)
        medium_priority == Take(SelectSeq(recommendations, Medium), 3)
    IN  [immediate_actions |->
            Flatten([i \in 1..Len(high_priority) |-> high_priority[i].action_items]),
         short_term_goals |->
            Flatten([i \in 1..Len(medium_priority) |-> medium_priority[i].action_items]),
         long_term_strategies |->
            <<"build healthy habits and keep them", "regular health checks and assessment",
              "adjust the conditioning plan to the body's state">>]

generate_action_plan(recommendations) ==
    LET High(r) == r.priority = "high"
        Medium(r) == r.priority = "medium"
        high_priority == Take(SelectSeq(recommendations, High), 2)
        medium_priority == Take(SelectSeq(recommendations, Medium), 3)
    IN  [immediate_actions |->
            Flatten([i \in 1..Len(high_priority) |->
                        Take(high_priority[i].action_items, 2)]),
         short_term_goals |->
            Flatten([i \in 1..Len(medium_priority) |->
                        Take(medium_priority[i].action_items, 2)]),
         long_term_strategies |->
            <<"build healthy habits and keep them", "regular health checks and assessment",
              "adjust the conditioning plan to the body's state">>]

\* the body of the recommendations response
RecommendationsData(record_id, customer_id, sels) ==
    LET customer == customers[customer_id]
        recommendations == SortRecommendations(EmittedRecommendations(customer, sels))
    IN  [record_id |-> record_id,
         customer_id |-> customer_id,
         customer_name |-> customer.name,
         customer_gender |-> customer.gender,
         customer_age |-> customer.age,
         total_symptoms |-> Len(sels),
         overall_advice |-> [count |-> Len(recommendations),
                             category |-> recommendations[1].category],
         recommendations |-> recommendations,
         action_plan |-> generate_action_plan(recommendations)]

get_recommendations(record_id) ==
    /\ IF record_id \notin DOMAIN records
       THEN response' = NotFound("recommendations")
       ELSE IF records[record_id].customer_id \notin DOMAIN customers
       THEN response' = NotFound("recommendations")
       ELSE response' = [op |-> "recommendations", code |-> 200,
                         data |-> RecommendationsData(record_id,
                                                      records[record_id].customer_id,
                                                      SelectionsOf(record_id))]
    /\ UNCHANGED <<customers, records, selections, symptoms>>

(***************************************************************************)
(* Specification SpecRecommend: the recommendations of one stored record.  *)
(* The customer's gender and age vary over both genders and the ages next  *)
(* to the limits of the age groups.  The record's selections are a subset  *)
(* of RecommendPool followed by none, MaxFill - 15 or MaxFill further      *)
(* symptoms of the red area, which brings the total to both sides of the   *)
(* volume limits 15 and 30.                                                *)
(***************************************************************************)
RecommendPool == {1, 5, 55, 56, 110, 164, 300}

\* the first id of the further symptoms
FirstFillId == 11

FillCounts == {0, MaxFill - 15, MaxFill}

FillIds(n) == [i \in 1..n |-> FirstFillId + i - 1]

\* the catalogue with a row for each further symptom, their tags in turn
\* 'habit', 'other', 'toxin' and 'nutrition'
RecommendCatalogue ==
    [id \in DOMAIN SymptomCatalogue \cup Range(FillIds(MaxFill)) |->
        IF id \in DOMAIN SymptomCatalogue THEN SymptomCatalogue[id]
        ELSE [tags |-> << <<"habit", "other", "toxin", "nutrition">>[(id % 4) + 1] >>]]

RecommendAges == {17, 18, 45, 46, 65, 66}

RecommendRecordIds == {1, 2}

InitRecommend ==
    /\ \E gender \in {"male", "female"}, age \in RecommendAges :
          customers = (1 :> [name |-> "test customer", gender |-> gender, age |-> age,
                             contact |-> "13800138000"])
    /\ \E S \in SUBSET RecommendPool, n \in FillCounts :
          LET ids == AscendingSeq(S) \o FillIds(n)
          IN  /\ records = (1 :> [customer_id |-> 1, symptom_count |-> Len(ids),
                                  note |-> ""])
              /\ selections = SelectionRows(1, ids)
    /\ symptoms = RecommendCatalogue
    /\ response = NoResponse

NextRecommend ==
    \E record_id \in RecommendRecordIds : get_recommendations(record_id)

SpecRecommend == InitRecommend /\ [][NextRecommend]_vars

(***************************************************************************)
(* The store: POST records, DELETE records/<id>, POST customers,           *)
(* PUT customers/<id>, DELETE customers/<id>.  A request body is a         *)
(* function from the keys it carries to their values.  A contact is the    *)
(* sequence of its characters; names and notes are taken as they are       *)
(* stored.  A new row gets the id after the largest id of its table.       *)
(***************************************************************************)
Digits == {"0", "1", "2", "3", "4", "5", "6", "7", "8", "9"}

Letters ==
    {"a", "b", "c", "d", "e", "f", "g", "h", "i", "j", "k", "l", "m",
     "n", "o", "p", "q", "r", "s", "t", "u", "v", "w", "x", "y", "z",
     "A", "B", "C", "D", "E", "F", "G", "H", "I", "J", "K", "L", "M",
     "N", "O", "P", "Q", "R", "S", "T", "U", "V", "W", "X", "Y", "Z"}

\* [a-zA-Z0-9._%+-]
LocalChars == Letters \cup Digits \cup {".", "_", "%", "+", "-"}

\* [a-zA-Z0-9.-]
DomainChars == Letters \cup Digits \cup {".", "-"}

\* ^1[3-9]\d{9} up to the end of the string
phone_pattern(contact) ==
    /\ Len(contact) = 11
    /\ contact[1] = "1"
    /\ contact[2] \in {"3", "4", "5", "6", "7", "8", "9"}
    /\ \A i \in 3..11 : contact[i] \in Digits

\* ^[a-zA-Z0-9._%+-]+@[a-zA-Z0-9.-]+\.[a-zA-Z]{2,} up to the end of the string
email_pattern(contact) ==
    \E at \in 2..Len(contact) : \E dot \in (at + 2)..(Len(contact) - 2) :
        /\ contact[at] = "@"
        /\ contact[dot] = "."
        /\ \A i \in 1..(at - 1) : contact[i] \in LocalChars
        /\ \A i \in (at + 1)..(dot - 1) : contact[i] \in DomainChars
        /\ \A i \in (dot + 1)..Len(contact) : contact[i] \in Letters

\* re.match of either pattern; '$' matches at the end of the string and
\* before a newline that ends it
validate_contact(contact) ==
    LET body == IF contact # <<>> /\ contact[Len(contact)] = "\n"
                THEN SubSeq(contact, 1, Len(contact) - 1)
                ELSE contact
    IN  \/ phone_pattern(contact) \/ phone_pattern(body)
        \/ email_pattern(contact) \/ email_pattern(body)

\* str.strip()
Strip(str) ==
    LET Whitespace == {" ", "\t", "\n", "\r"}
        kept == {i \in 1..Len(str) : str[i] \notin Whitespace}
    IN  IF kept = {} THEN <<>>
        ELSE SubSeq(str, CHOOSE i \in kept : \A j \in kept : i <= j,
                         CHOOSE i \in kept : \A j \in kept : i >= j)

\* the gynaecological band taken to start one id later
Mut_validate_gender_symptoms(gender, symptom_ids) ==
    LET InBand(sid) == 261 <= sid /\ sid <= 300
    IN  ~(gender = "male" /\ SelectSeq(symptom_ids, InBand) # <<>>)

\* validate_gender_symptoms: is_valid
validate_gender_symptoms(gender, symptom_ids) ==
    LET InBand(sid) == 260 <= sid /\ sid <= 300
    IN  ~(gender = "male" /\ SelectSeq(symptom_ids, InBand) # <<>>)

\* the id an autoincrement primary key gives the next row of a table
NextId(table) ==
    IF DOMAIN table = {} THEN 1
    ELSE 1 + CHOOSE id \in DOMAIN table : \A other \in DOMAIN table : id >= other

\* a table without the rows of the given ids
Without(table, ids) == [id \in DOMAIN table \ ids |-> table[id]]

\* a response without data
Failure(op, code) == [op |-> op, code |-> code]

\* the status of the first validation of submit_symptom_record a request
\* body fails, 0 if it passes them all
SubmitValidation(data) ==
    IF {"name", "gender", "age", "contact", "selected_symptoms"} \ DOMAIN data # {}
    THEN 400
    ELSE IF data.gender \notin {"male", "female"} THEN 422
    ELSE IF data.age < 1 \/ data.age > 120 THEN 422
    ELSE IF ~validate_contact(data.contact) THEN 422
    ELSE IF Len(data.selected_symptoms) = 0 THEN 422
    ELSE IF \E i \in 1..Len(data.selected_symptoms) :
                data.selected_symptoms[i] < 1 \/ data.selected_symptoms[i] > 300
    THEN 422
    ELSE IF ~validate_gender_symptoms(data.gender, data.selected_symptoms) THEN 422
    ELSE 0

\* the unique constraint on (record_id, symptom_id) never reported
Mut_ViolatesUniqueSelection(selected_symptoms) == FALSE

\* the rows of one record violate the unique constraint on
\* (record_id, symptom_id): the commit raises IntegrityError
ViolatesUniqueSelection(selected_symptoms) ==
    \E i, j \in 1..Len(selected_symptoms) :
        i # j /\ selected_symptoms[i] = selected_symptoms[j]

\* the summary of the response: the number of symptoms and the areas of the
\* largest count, in the order they were first counted
SubmitSummary(selected_symptoms) ==
    LET area_counts ==
            CounterIncAll(<<>>, [i \in 1..Len(selected_symptoms) |->
                                    determine_area(selected_symptoms[i])])
        IsMax(entry) == \A i \in 1..Len(area_counts) : entry.count >= area_counts[i].count
        primary == SelectSeq(area_counts, IsMax)
    IN  [count |-> Len(selected_symptoms),
         primary_areas |-> [i \in 1..Len(primary) |-> primary[i].key]]

\* what the try block of submit_symptom_record leaves behind for a request
\* body that passed the validations, customer_id being the customer found by
\* contact or, if there is none, the id of the customer it creates
SubmitEffect(data, customer_id) ==
    LET record_id == NextId(records)
    IN  IF ViolatesUniqueSelection(data.selected_symptoms)
        THEN \* db.session.rollback()
             [response |-> Failure("submit", 500),
              customers |-> customers, records |-> records,
              selections |-> selections]
        ELSE [response |->
                 [op |-> "submit", code |-> 200,
                  data |-> [record_id |-> record_id,
                            customer_id |-> customer_id,
                            symptom_count |-> Len(data.selected_symptoms),
                            summary |-> SubmitSummary(data.selected_symptoms)]],
              customers |->
                 IF customer_id \in DOMAIN customers THEN customers
                 ELSE customers @@
                      (customer_id :> [name |-> data.name,
                                       gender |-> data.gender,
                                       age |-> data.age,
                                       contact |-> Strip(data.contact)]),
              records |-> records @@
                 (record_id :>
                     [customer_id |-> customer_id,
                      symptom_count |-> Len(data.selected_symptoms),
                      note |-> IF "note" \in DOMAIN data THEN data.note ELSE ""]),
              selections |-> selections \o
                 SelectionRows(record_id, data.selected_symptoms)]

\* the outcomes of submit_symptom_record for a request body: the response
\* and the tables after it.  Customer.query.filter_by(contact=...).first()
\* returns any of the customers of that contact.
SubmitOutcomes(data) ==
    LET status == SubmitValidation(data)
    IN  IF status # 0
        THEN {[response |-> Failure("submit", status),
               customers |-> customers, records |-> records,
               selections |-> selections]}
        ELSE LET found == {id \in DOMAIN customers :
                              customers[id].contact = Strip(data.contact)}
             IN  {SubmitEffect(data, customer_id) :
                     customer_id \in IF found = {} THEN {NextId(customers)}
                                     ELSE found}

\* POST records
submit_symptom_record(data) ==
    \E outcome \in SubmitOutcomes(data) :
        /\ DOMAIN outcome.customers \subseteq 1..MaxStoreId
        /\ DOMAIN outcome.records \subseteq 1..MaxStoreId
        /\ response' = outcome.response
        /\ customers' = outcome.customers
        /\ records' = outcome.records
        /\ selections' = outcome.selections
        /\ UNCHANGED symptoms

\* the rows of symptom_selections left when the given records are deleted
\* (cascade of SymptomRecord.symptom_selections)
SelectionsWithout(record_ids) ==
    LET Kept(row) == row.record_id \notin record_ids
    IN  SelectSeq(selections, Kept)

\* the selections of the record left behind
Mut_delete_record(record_id) ==
    IF record_id \notin DOMAIN records
    THEN /\ response' = NotFound("delete_record")
         /\ UNCHANGED <<customers, records, selections, symptoms>>
    ELSE /\ records' = Without(records, {record_id})
         /\ response' = [op |-> "delete_record", code |-> 200,
                         data |-> [deleted_record |-> TRUE,
                                   deleted_selections |->
                                       records[record_id].symptom_count]]
         /\ UNCHANGED <<customers, selections, symptoms>>

\* DELETE records/<record_id>
delete_record(record_id) ==
    IF record_id \notin DOMAIN records
    THEN /\ response' = NotFound("delete_record")
         /\ UNCHANGED <<customers, records, selections, symptoms>>
    ELSE /\ records' = Without(records, {record_id})
         /\ selections' = SelectionsWithout({record_id})
         /\ response' = [op |-> "delete_record", code |-> 200,
                         data |-> [deleted_record |-> TRUE,
                                   deleted_selections |->
                                       records[record_id].symptom_count]]
         /\ UNCHANGED <<customers, symptoms>>

\* Customer.to_dict(), without the timestamps
CustomerDict(customer_id, customer) ==
    [id |-> customer_id, name |-> customer.name, gender |-> customer.gender,
     age |-> customer.age, contact |-> customer.contact]

\* the status of the first validation of create_customer a request body
\* fails, 0 if it passes them all ('not data[field]' holds of an empty
\* string and of 0)
CreateValidation(data) ==
    IF {"name", "gender", "age", "contact"} \ DOMAIN data # {} THEN 400
    ELSE IF data.name = "" \/ data.gender = "" \/ data.age = 0 \/ data.contact = <<>>
    THEN 400
    ELSE IF data.gender \notin {"male", "female"} THEN 422
    ELSE IF data.age < 1 \/ data.age > 120 THEN 422
    ELSE IF ~validate_contact(data.contact) THEN 422
    ELSE 0

\* POST customers
create_customer(data) ==
    IF CreateValidation(data) # 0
    THEN /\ response' = Failure("create_customer", CreateValidation(data))
         /\ UNCHANGED <<customers, records, selections, symptoms>>
    ELSE LET customer_id == NextId(customers)
             customer == [name |-> data.name, gender |-> data.gender,
                          age |-> data.age, contact |-> Strip(data.contact)]
         IN  /\ customer_id <= MaxStoreId
             /\ customers' = customers @@ (customer_id :> customer)
             /\ response' = [op |-> "create_customer", code |-> 201,
                             data |-> CustomerDict(customer_id, customer)]
             /\ UNCHANGED <<records, selections, symptoms>>

\* a request body of update_customer passes the validations of the fields
\* it carries
UpdateValid(data) ==
    /\ "gender" \in DOMAIN data => data.gender \in {"male", "female"}
    /\ "age" \in DOMAIN data => (data.age >= 1 /\ data.age <= 120)
    /\ ("contact" \in DOMAIN data /\ data.contact # <<>>) =>
          validate_contact(data.contact)

\* the customer with the fields of the request body assigned
UpdatedCustomer(customer, data) ==
    [name |-> IF "name" \in DOMAIN data /\ data.name # ""
              THEN data.name ELSE customer.name,
     gender |-> IF "gender" \in DOMAIN data THEN data.gender ELSE customer.gender,
     age |-> IF "age" \in DOMAIN data THEN data.age ELSE customer.age,
     contact |-> IF "contact" \in DOMAIN data /\ data.contact # <<>>
                 THEN Strip(data.contact) ELSE customer.contact]

\* PUT customers/<customer_id>: a request that fails a validation returns
\* before the commit, and the assignments made so far are dropped with the
\* session
update_customer(customer_id, data) ==
    IF customer_id \notin DOMAIN customers
    THEN /\ response' = NotFound("update_customer")
         /\ UNCHANGED <<customers, records, selections, symptoms>>
    ELSE IF ~UpdateValid(data)
    THEN /\ response' = Failure("update_customer", 422)
         /\ UNCHANGED <<customers, records, selections, symptoms>>
    ELSE LET customer == UpdatedCustomer(customers[customer_id], data)
         IN  /\ customers' = [customers EXCEPT ![customer_id] = customer]
             /\ response' = [op |-> "update_customer", code |-> 200,
                             data |-> CustomerDict(customer_id, customer)]
             /\ UNCHANGED <<records, selections, symptoms>>

\* DELETE customers/<customer_id>, with the value of the X-Confirm-Delete
\* header: the customer's records and their selections go with it
delete_customer(customer_id, confirm_header) ==
    IF confirm_header # "true"
    THEN /\ response' = Failure("delete_customer", 400)
         /\ UNCHANGED <<customers, records, selections, symptoms>>
    ELSE IF customer_id \notin DOMAIN customers
    THEN /\ response' = NotFound("delete_customer")
         /\ UNCHANGED <<customers, records, selections, symptoms>>
    ELSE LET symptom_records ==
                 {id \in DOMAIN records : records[id].customer_id = customer_id}
             counts == AscendingSeq(symptom_records)
         IN  /\ customers' = Without(customers, {customer_id})
             /\ records' = Without(records, symptom_records)
             /\ selections' = SelectionsWithout(symptom_records)
             /\ response' =
                    [op |-> "delete_customer", code |-> 200,
                     data |-> [deleted_customer |-> TRUE,
                               deleted_records |-> Cardinality(symptom_records),
                               deleted_selections |->
                                   SumSeq([i \in 1..Len(counts) |->
                                              records[counts[i]].symptom_count])]]
             /\ UNCHANGED symptoms

(***************************************************************************)
(* Specification SpecStore: the handlers that write the store, from an     *)
(* empty database.  The request bodies are well-formed submissions of two  *)
(* contacts, both genders and the selection lists of SubmitLists, and      *)
(* bodies that fail one validation each.  No row gets an id above          *)
(* MaxStoreId.                                                             *)
(***************************************************************************)
Phone1 == <<"1", "3", "8", "0", "0", "1", "3", "8", "0", "0", "0">>

Email1 == <<"a", "@", "b", ".", "c", "n">>

\* a phone number followed by a newline, which the pattern accepts
Phone1Newline == Phone1 \o <<"\n">>

\* a phone number after a blank, which it does not
BlankPhone1 == <<" ">> \o Phone1

\* selection lists a submission stores
SubmitLists == {<<1, 5, 10>>, <<1, 5, 260>>, <<259>>, <<300>>}

\* the same symptom selected twice
RepeatedLists == {<<1, 1>>, <<260, 5, 260>>}

BaseRequest ==
    [name |-> "test customer", gender |-> "female", age |-> 35,
     contact |-> Phone1, selected_symptoms |-> <<1, 5, 10>>]

\* a request body without one of its keys
Omit(data, key) == [k \in DOMAIN data \ {key} |-> data[k]]

SubmitRequests ==
    {[BaseRequest EXCEPT !.gender = g, !.contact = c, !.selected_symptoms = l] :
        g \in {"male", "female"}, c \in {Phone1, Email1},
        l \in SubmitLists \cup RepeatedLists}
    \cup {[BaseRequest EXCEPT !.gender = "other"],
          [BaseRequest EXCEPT !.age = 0],
          [BaseRequest EXCEPT !.age = 121],
          [BaseRequest EXCEPT !.contact = BlankPhone1],
          [BaseRequest EXCEPT !.contact = Phone1Newline],
          [BaseRequest EXCEPT !.selected_symptoms = <<>>],
          [BaseRequest EXCEPT !.selected_symptoms = <<1, 301>>],
          [BaseRequest EXCEPT !.selected_symptoms = <<0>>],
          BaseRequest @@ [note |-> "tired"]}
    \cup {Omit(BaseRequest, key) : key \in DOMAIN BaseRequest}

BaseCustomer == Omit(BaseRequest, "selected_symptoms")

CreateRequests ==
    {[BaseCustomer EXCEPT !.gender = g, !.contact = c] :
        g \in {"male", "female"}, c \in {Phone1, Email1}}
    \cup {[BaseCustomer EXCEPT !.gender = "other"],
          [BaseCustomer EXCEPT !.age = 0],
          [BaseCustomer EXCEPT !.age = 121],
          [BaseCustomer EXCEPT !.contact = BlankPhone1]}
    \cup {Omit(BaseCustomer, "name")}

UpdateRequests ==
    {[gender |-> g] : g \in {"male", "female", "other"}}
    \cup {[age |-> 121],
          [contact |-> BlankPhone1],
          [name |-> "test customer", gender |-> "male", age |-> 0],
          [name |-> "test customer", age |-> 35, contact |-> Phone1Newline]}

\* ids a request may name: those of the rows and one that is never stored
StoreIds == 1..(MaxStoreId + 1)

ConfirmHeaders == {"true", "none"}

InitStore ==
    /\ customers = <<>>
    /\ records = <<>>
    /\ selections = <<>>
    /\ symptoms = SymptomCatalogue
    /\ response = NoResponse

NextStore ==
    \/ \E data \in SubmitRequests : submit_symptom_record(data)
    \/ \E record_id \in StoreIds : delete_record(record_id)
    \/ \E data \in CreateRequests : create_customer(data)
    \/ \E customer_id \in StoreIds, data \in UpdateRequests :
          update_customer(customer_id, data)
    \/ \E customer_id \in StoreIds, confirm_header \in ConfirmHeaders :
          delete_customer(customer_id, confirm_header)

SpecStore == InitStore /\ [][NextStore]_vars

(***************************************************************************)
(* Properties.                                                             *)
(***************************************************************************)
\* the band table of the area classifier, as the specification states it
Bands ==
    <<[lo |-> 1,   hi |-> 55,  area |-> "red"],
      [lo |-> 56,  hi |-> 109, area |-> "green"],
      [lo |-> 110, hi |-> 163, area |-> "white"],
      [lo |-> 164, hi |-> 212, area |-> "black"],
      [lo |-> 213, hi |-> 259, area |-> "yellow"],
      [lo |-> 260, hi |-> 300, area |-> "blue"]>>

BandsOf(id) == {b \in 1..Len(Bands) : Bands[b].lo <= id /\ id <= Bands[b].hi}

AreaRank(area) == CHOOSE i \in 1..Len(AreaOrder) : AreaOrder[i] = area

ClassifyOps == {"get_area_by_id", "determine_area", "compare.get_area_by_id"}

ClassifierOf(op, id) ==
    CASE op = "get_area_by_id" -> get_area_by_id(id)
      [] op = "determine_area" -> determine_area(id)
      [] op = "compare.get_area_by_id" -> compare_get_area_by_id(id)

InCatalogueRange(id) == MinSymptomId <= id /\ id <= MaxSymptomId

\* p is count / total * 100 rounded to the nearest hundredth
IsRoundedPct(p, count, total) ==
    LET d == p * total - 10000 * count
    IN  2 * (IF d < 0 THEN -d ELSE d) <= total

SummaryOk == response.op = "summary" /\ response.code = 200

CausesOk == response.op = "causes" /\ response.code = 200

\* the symptom ids of the rows the last response was computed from
AnalysedIds ==
    LET sels == SelectionsOf(response.data.record_id)
    IN  [i \in 1..Len(sels) |-> sels[i].symptom_id]

\* the entry of an area in the returned area_distribution
DistributionEntry(area) ==
    LET d == response.data.area_distribution
    IN  d[CHOOSE i \in 1..Len(d) : d[i].area = area]

C2_AreaDistribution ==
    SummaryOk =>
        LET d == response.data.area_distribution
            ids == AnalysedIds
            total == Len(ids)
            CountOf(area) ==
                Cardinality({k \in 1..total : get_area_by_id(ids[k]) = area})
        IN  /\ response.data.total_symptoms = total
            /\ Len(d) = Len(AreaOrder)
            /\ \A area \in KnownAreas :
                 Cardinality({i \in 1..Len(d) : d[i].area = area}) = 1
            /\ \A i \in 1..Len(d) :
                 /\ d[i].symptom_count = CountOf(d[i].area)
                 /\ total > 0 => IsRoundedPct(d[i].percentage, d[i].symptom_count, total)
                 /\ total = 0 => d[i].percentage = 0
                 /\ (total > 0 /\ d[i].symptom_count = total) =>
                      /\ d[i].percentage = 10000
                      /\ \A j \in 1..Len(d) : j # i => d[j].symptom_count = 0

\* the summary of the selections {1, 5, 10}: red has count 3 and 100.0
C2_Witness ==
    /\ SummaryOk
    /\ Range(AnalysedIds) = {1, 5, 10}
    /\ DistributionEntry("red").symptom_count = 3
    /\ DistributionEntry("red").percentage = 10000
    /\ DistributionEntry("red").risk_level = "high"
    /\ \A area \in KnownAreas \ {"red"} : DistributionEntry(area).symptom_count = 0

CompareRecordsOk == response.op = "compare_records" /\ response.code = 200

CompareTwoRecordsOk == response.op = "compare_two_records" /\ response.code = 200

\* the selection sets A and B of the last comparison
ComparedA ==
    IF response.op = "compare_records"
    THEN SymptomIds(SelectionsOf(response.data.record1_id))
    ELSE SymptomIds(SelectionsOf(response.data.record_a_id))

ComparedB ==
    IF response.op = "compare_records"
    THEN SymptomIds(SelectionsOf(response.data.record2_id))
    ELSE SymptomIds(SelectionsOf(response.data.record_b_id))

\* the symptom ids a returned detail list names
DetailIds(details) == {entry.id : entry \in details}

Catalogued == DOMAIN symptoms

\* the sizes of added, removed and common the response reports
ReportedCounts ==
    IF response.op = "compare_records"
    THEN LET chart == response.data.visualization_data.change_chart
         IN  [added |-> chart[1].count, removed |-> chart[2].count,
              common |-> chart[3].count,
              net_change |-> response.data.comparison_summary.net_change,
              overall_trend |-> response.data.comparison_summary.overall_trend]
    ELSE [added |-> response.data.added_count,
          removed |-> response.data.removed_count,
          common |-> response.data.common_count,
          net_change |-> response.data.net_change,
          overall_trend |-> response.data.overall_trend]

\* C3 as stated: the comparison returns added = B \ A, removed = A \ B and
\* common = A \cap B, removed and common partitioning A, added and common
\* partitioning B.
C3_ReturnsSetAlgebra ==
    CompareRecordsOk =>
        LET added == DetailIds(response.data.added_symptoms)
            removed == DetailIds(response.data.removed_symptoms)
            common == DetailIds(response.data.common_symptoms)
        IN  /\ added = ComparedB \ ComparedA
            /\ removed = ComparedA \ ComparedB
            /\ common = ComparedA \cap ComparedB
            /\ removed \cup common = ComparedA /\ removed \cap common = {}
            /\ added \cup common = ComparedB /\ added \cap common = {}

\* C3 (amended): the comparison reports the sizes of added = B \ A,
\* removed = A \ B and common = A \cap B, removed and common adding up to |A|
\* and added and common to |B|; the returned added, removed and common lists
\* name exactly the ids of those sets that have a catalogue row; for
\* A = {1,2,3} and B = {2,3,4} the result is added {4}, removed {1},
\* common {2,3}, net_change 0 and overall_trend stable.
C3_CompareSets ==
    (CompareRecordsOk \/ CompareTwoRecordsOk) =>
        LET A == ComparedA
            B == ComparedB
        IN  /\ ReportedCounts.added = Cardinality(B \ A)
            /\ ReportedCounts.removed = Cardinality(A \ B)
            /\ ReportedCounts.common = Cardinality(A \cap B)
            /\ ReportedCounts.removed + ReportedCounts.common = Cardinality(A)
            /\ ReportedCounts.added + ReportedCounts.common = Cardinality(B)
            /\ CompareRecordsOk =>
                 /\ DetailIds(response.data.added_symptoms) = (B \ A) \cap Catalogued
                 /\ DetailIds(response.data.removed_symptoms) = (A \ B) \cap Catalogued
                 /\ DetailIds(response.data.common_symptoms) = (A \cap B) \cap Catalogued
                 /\ (A = {1, 2, 3} /\ B = {2, 3, 4}) =>
                      /\ DetailIds(response.data.added_symptoms) = {4}
                      /\ DetailIds(response.data.removed_symptoms) = {1}
                      /\ DetailIds(response.data.common_symptoms) = {2, 3}
            /\ (A = {1, 2, 3} /\ B = {2, 3, 4}) =>
                 /\ ReportedCounts.net_change = 0
                 /\ ReportedCounts.overall_trend = "stable"

\* {1,2,3} has been compared with {2,3,4}
C3_Witness ==
    /\ CompareRecordsOk
    /\ ComparedA = {1, 2, 3}
    /\ ComparedB = {2, 3, 4}
    /\ DetailIds(response.data.added_symptoms) = {4}
    /\ response.data.comparison_summary.overall_trend = "stable"

\* C4: the risk tier of every area follows from its rounded percentage by
\* strict thresholds: high above 20, medium above 10 up to 20, low up to 10;
\* exactly 20.0 is medium and exactly 10.0 is low.
C4_RiskTier ==
    SummaryOk =>
        LET d == response.data.area_distribution
            total == response.data.total_symptoms
        IN  \A i \in 1..Len(d) :
              /\ total > 0 => IsRoundedPct(d[i].percentage, d[i].symptom_count, total)
              /\ d[i].risk_level = "high" <=> d[i].percentage > 2000
              /\ d[i].risk_level = "medium" <=>
                     (1000 < d[i].percentage /\ d[i].percentage <= 2000)
              /\ d[i].risk_level = "low" <=> d[i].percentage <= 1000
              /\ d[i].percentage = 2000 => d[i].risk_level = "medium"
              /\ d[i].percentage = 1000 => d[i].risk_level = "low"

\* a summary holding an area at exactly 20.0 (medium), one at exactly 10.0
\* (low) and one above 20 (high)
C4_Witness ==
    /\ SummaryOk
    /\ \E i, j, k \in 1..Len(response.data.area_distribution) :
         LET d == response.data.area_distribution
         IN  /\ d[i].percentage = 2000 /\ d[i].risk_level = "medium"
             /\ d[j].percentage = 1000 /\ d[j].risk_level = "low"
             /\ d[k].percentage > 2000 /\ d[k].risk_level = "high"

\* the sum S of the returned percentages that exceed 15
SumOver15 ==
    LET d == response.data.area_distribution
    IN  SumSeq([i \in 1..Len(d) |->
                  IF d[i].percentage > 1500 THEN d[i].percentage ELSE 0])

\* C5: overall_risk_level is high if the sum S of the rounded percentages
\* above 15 exceeds 40, medium if 20 < S <= 40, low if S <= 20.
C5_OverallRisk ==
    SummaryOk =>
        /\ response.data.overall_risk_level = "high" <=> SumOver15 > 4000
        /\ response.data.overall_risk_level = "medium" <=>
               (2000 < SumOver15 /\ SumOver15 <= 4000)
        /\ response.data.overall_risk_level = "low" <=> SumOver15 <= 2000

\* a medium overall risk with selected areas at or under 15 left out of S
C5_Witness ==
    /\ SummaryOk
    /\ response.data.overall_risk_level = "medium"
    /\ \E i \in 1..Len(response.data.area_distribution) :
         LET p == response.data.area_distribution[i].percentage
         IN  0 < p /\ p <= 1500

\* the number k of areas with at least one selection
SelectedAreaCount ==
    LET d == response.data.area_distribution
    IN  Cardinality({i \in 1..Len(d) : d[i].symptom_count > 0})

\* C6: area_distribution is in non-increasing symptom_count order, equal
\* counts in the fixed area order, and primary_areas is its first min(3, k)
\* entries, k the number of areas with a selection.
C6_OrderAndPrimaryAreas ==
    SummaryOk =>
        LET d == response.data.area_distribution
            primary == response.data.primary_areas
        IN  /\ \A i, j \in 1..Len(d) :
                 i < j =>
                   /\ d[i].symptom_count >= d[j].symptom_count
                   /\ d[i].symptom_count = d[j].symptom_count =>
                        AreaRank(d[i].area) < AreaRank(d[j].area)
            /\ primary = SubSeq(d, 1, Min(3, SelectedAreaCount))
            /\ \A i \in 1..Len(primary) : primary[i].symptom_count > 0
            /\ \A i \in 1..Len(d) :
                 (\A j \in 1..Len(primary) : primary[j].area # d[i].area) =>
                    \A j \in 1..Len(primary) :
                       d[i].symptom_count <= primary[j].symptom_count

\* more than three areas selected, two of them tied, the list cut to three
C6_Witness ==
    /\ SummaryOk
    /\ SelectedAreaCount > 3
    /\ Len(response.data.primary_areas) = 3
    /\ response.data.primary_areas[2].symptom_count
          = response.data.primary_areas[3].symptom_count
    /\ response.data.primary_areas[1].symptom_count
          > response.data.primary_areas[2].symptom_count

PercentageSum ==
    LET d == response.data.area_distribution
    IN  SumSeq([i \in 1..Len(d) |-> d[i].percentage])

\* C7: for a non-empty selection set the six percentages sum to at most
\* 100 + 0.1, and to within 0.1 of 100 when every selected id is in [1,300].
C7_PercentageSum ==
    (SummaryOk /\ response.data.total_symptoms > 0) =>
        /\ PercentageSum <= 10000 + 10
        /\ (\A id \in Range(AnalysedIds) : InCatalogueRange(id)) =>
              Abs(PercentageSum - 10000) <= 10

\* in-range selections whose rounded percentages do not add up to 100.00
C7_Witness ==
    /\ SummaryOk
    /\ response.data.total_symptoms > 0
    /\ \A id \in Range(AnalysedIds) : InCatalogueRange(id)
    /\ PercentageSum # 10000

\* C8: with zero selections every area percentage is 0 and every area risk
\* tier low, overall_risk_level is low, primary_areas and tag_distribution
\* are empty and the causes summary is the 'no data' sentinel; both
\* operations answer 200.
C8_ZeroSelections ==
    /\ (response.op \in {"summary", "causes"} /\ response.code # 404) =>
          response.code = 200
    /\ (SummaryOk /\ AnalysedIds = <<>>) =>
          LET d == response.data.area_distribution
          IN  /\ \A i \in 1..Len(d) :
                   d[i].percentage = 0 /\ d[i].risk_level = "low"
              /\ response.data.overall_risk_level = "low"
              /\ response.data.primary_areas = <<>>
    /\ (CausesOk /\ AnalysedIds = <<>>) =>
          /\ response.data.tag_distribution = <<>>
          /\ response.data.summary.phrase = "no data"

\* the causes analysis of a record without selections has answered
C8_Witness ==
    /\ CausesOk
    /\ AnalysedIds = <<>>
    /\ response.data.total_symptoms = 0
    /\ response.data.summary.phrase = "no data"

\* the tags attached to the selected symptoms that have a catalogue row
SelectedTags ==
    UNION {Range(TagsOf(id)) : id \in Range(AnalysedIds) \cap Catalogued}

\* the number of selected symptoms carrying a tag
CarrierCount(tag) ==
    LET ids == AnalysedIds
    IN  Cardinality({k \in 1..Len(ids) :
                        ids[k] \in Catalogued /\ tag \in Range(TagsOf(ids[k]))})

\* C9: tag_distribution has one entry per distinct tag of the selected
\* symptoms; its count is the number of selected symptoms carrying the tag,
\* its percentage is count / total_selections * 100 rounded to two decimals,
\* its severity is high above 30, medium above 15 up to 30, else low, and the
\* entries are in non-increasing count order.
C9_TagDistribution ==
    CausesOk =>
        LET td == response.data.tag_distribution
            total == Len(AnalysedIds)
        IN  /\ response.data.total_symptoms = total
            /\ {td[i].tag : i \in 1..Len(td)} = SelectedTags
            /\ Len(td) = Cardinality(SelectedTags)
            /\ \A i \in 1..Len(td) :
                 /\ td[i].count = CarrierCount(td[i].tag)
                 /\ IsRoundedPct(td[i].percentage, td[i].count, total)
                 /\ td[i].severity = "high" <=> td[i].percentage > 3000
                 /\ td[i].severity = "medium" <=>
                        (1500 < td[i].percentage /\ td[i].percentage <= 3000)
                 /\ td[i].severity = "low" <=> td[i].percentage <= 1500
            /\ \A i, j \in 1..Len(td) : i < j => td[i].count >= td[j].count

\* a symptom with two tags selected, a tag at exactly 30.0 rated medium and
\* another tag rated low
C9_Witness ==
    /\ CausesOk
    /\ 1 \in Range(AnalysedIds)
    /\ \E i, j \in 1..Len(response.data.tag_distribution) :
         LET td == response.data.tag_distribution
         IN  /\ td[i].percentage = 3000 /\ td[i].severity = "medium"
             /\ td[j].severity = "low"

\* the summary names the first n entries of tag_distribution, which are the
\* most frequent tags
NamesTopTags(n) ==
    LET td == response.data.tag_distribution
        summary == response.data.summary
    IN  /\ Len(td) >= n
        /\ summary.tag1 = td[1].tag
        /\ summary.percentage1 = td[1].percentage
        /\ \A i \in 1..Len(td) : td[i].count <= CarrierCount(summary.tag1)
        /\ n = 2 =>
             /\ summary.tag2 = td[2].tag
             /\ summary.percentage2 = td[2].percentage
             /\ \A i \in 2..Len(td) : td[i].count <= CarrierCount(summary.tag2)

\* C10 as stated: the summary is the 'no data' phrase exactly for the empty
\* selection set; for a non-empty one it names the most frequent tag when
\* exactly one distinct tag occurs and the two most frequent tags otherwise.
C10_SummaryNamesTags ==
    CausesOk =>
        LET summary == response.data.summary
            total == Len(AnalysedIds)
        IN  /\ summary.phrase = "no data" <=> total = 0
            /\ total > 0 =>
                 IF Cardinality(SelectedTags) = 1
                 THEN summary.phrase = "one tag" /\ NamesTopTags(1)
                 ELSE summary.phrase = "two tags" /\ NamesTopTags(2)

\* C10 (amended): the summary is the 'no data' phrase exactly for the empty
\* selection set; for a non-empty one it is the 'causes unclear' phrase when
\* no selected symptom carries a tag, names the most frequent tag when
\* exactly one distinct tag occurs, and the two most frequent tags when two
\* or more occur.
C10_SummaryPhrase ==
    CausesOk =>
        LET summary == response.data.summary
            total == Len(AnalysedIds)
        IN  /\ summary.phrase = "no data" <=> total = 0
            /\ total > 0 =>
                 CASE Cardinality(SelectedTags) = 0 -> summary.phrase = "causes unclear"
                   [] Cardinality(SelectedTags) = 1 ->
                        summary.phrase = "one tag" /\ NamesTopTags(1)
                   [] OTHER -> summary.phrase = "two tags" /\ NamesTopTags(2)

\* a summary naming two tags of three or more
C10_Witness ==
    /\ CausesOk
    /\ response.data.summary.phrase = "two tags"
    /\ Len(response.data.tag_distribution) > 2
    /\ response.data.summary.percentage1 > response.data.summary.percentage2

\* the positions of the analysed rows whose symptom is classified to an area
AreaSelected(area) ==
    LET ids == AnalysedIds
    IN  {k \in 1..Len(ids) : get_area_by_id(ids[k]) = area}

\* the tags carried by the selected symptoms of an area
AreaSelectedTags(area) ==
    LET ids == AnalysedIds
    IN  UNION {Range(TagsOf(ids[k])) : k \in {j \in AreaSelected(area) : ids[j] \in Catalogued}}

\* the number of selected symptoms of an area carrying a tag
AreaCarrierCount(area, tag) ==
    LET ids == AnalysedIds
    IN  Cardinality({k \in AreaSelected(area) :
                        ids[k] \in Catalogued /\ tag \in Range(TagsOf(ids[k]))})

\* C11: area_tag_analysis has exactly one entry for each area that contains
\* at least one selected symptom, in the fixed area order; the entry's
\* total_symptoms is the number of selected symptoms in that area, its
\* top_tags are the at most 3 most frequent tags of that area in
\* non-increasing count order, and each top tag's percentage is
\* count / total_symptoms * 100 rounded to two decimals, the share of the
\* area's selected symptoms carrying the tag.
C11_AreaTagAnalysis ==
    CausesOk =>
        LET ata == response.data.area_tag_analysis
            HasSelected(area) == AreaSelected(area) # {}
            present == SelectSeq(AreaOrder, HasSelected)
        IN  /\ [i \in 1..Len(ata) |-> ata[i].area] = present
            /\ \A i \in 1..Len(ata) :
                 LET entry == ata[i]
                     top == entry.top_tags
                     tags == AreaSelectedTags(entry.area)
                     n == Cardinality(AreaSelected(entry.area))
                 IN  /\ entry.total_symptoms = n
                     /\ Len(top) = Min(3, Cardinality(tags))
                     /\ \A j \in 1..Len(top) :
                          /\ top[j].tag \in tags
                          /\ top[j].count = AreaCarrierCount(entry.area, top[j].tag)
                          /\ IsRoundedPct(top[j].percentage, top[j].count, n)
                          /\ \A t \in tags \ {top[k].tag : k \in 1..Len(top)} :
                               AreaCarrierCount(entry.area, t) <= top[j].count
                     /\ \A j, k \in 1..Len(top) :
                          j < k => top[j].count >= top[k].count /\ top[j].tag # top[k].tag

\* a list with two of its elements exchanged
Swap(seq, i, j) ==
    [k \in 1..Len(seq) |-> IF k = i THEN seq[j] ELSE IF k = j THEN seq[i] ELSE seq[k]]

\* the rows of the analysed record in another enumeration order: any two
\* rows exchanged (every order is a chain of such exchanges)
Reorderings ==
    LET sels == SelectionsOf(response.data.record_id)
    IN  {Swap(sels, i, j) : i, j \in 1..Len(sels)} \cup {sels}

\* a list of tag entries with the tag names erased
Untagged(entries) ==
    [i \in 1..Len(entries) |->
        [count |-> entries[i].count, percentage |-> entries[i].percentage]]

\* the summary sentence with the tag names erased
UntaggedSummary(summary) ==
    CASE summary.phrase = "two tags" ->
            <<summary.phrase, summary.percentage1, summary.percentage2>>
      [] summary.phrase = "one tag" -> <<summary.phrase, summary.percentage1>>
      [] OTHER -> <<summary.phrase>>

\* two outputs of the causes analysis differ at most in which of several
\* equal-count tags takes which position
SameUpToTies(out1, out2) ==
    /\ out1.total_symptoms = out2.total_symptoms
    /\ Range(out1.tag_distribution) = Range(out2.tag_distribution)
    /\ Untagged(out1.tag_distribution) = Untagged(out2.tag_distribution)
    /\ Len(out1.area_tag_analysis) = Len(out2.area_tag_analysis)
    /\ \A i \in 1..Len(out1.area_tag_analysis) :
         LET e1 == out1.area_tag_analysis[i]
             e2 == out2.area_tag_analysis[i]
         IN  /\ e1.area = e2.area
             /\ e1.total_symptoms = e2.total_symptoms
             /\ Untagged(e1.top_tags) = Untagged(e2.top_tags)
    /\ [i \in 1..Len(out1.main_problem_types) |-> out1.main_problem_types[i].impact_score]
         = [i \in 1..Len(out2.main_problem_types) |-> out2.main_problem_types[i].impact_score]
    /\ UntaggedSummary(out1.summary) = UntaggedSummary(out2.summary)

\* C12 as stated: a second run of the summary or of the causes analysis on
\* the same stored selections returns the output of the first, and the
\* output is the same whatever the order in which the selections are
\* enumerated.
C12_OrderIndependent ==
    /\ SummaryOk =>
         \A sels \in Reorderings :
             response.data = SummaryData(response.data.record_id, sels)
    /\ CausesOk =>
         \A sels \in Reorderings :
             response.data = CausesData(response.data.record_id, sels)

\* C12 (amended): a second run of the summary or of the causes analysis on
\* the same stored selections, enumerated in the same order, returns the
\* output of the first; the summary's output is the same for every
\* enumeration order of the selections; the causes analysis returns for
\* every enumeration order the same totals, the same tag_distribution
\* entries and the same counts and percentages at every position, so that
\* two orders differ at most in which of several equal-count tags is listed
\* at which position.
C12_Deterministic ==
    /\ SummaryOk =>
         /\ response.data = SummaryData(response.data.record_id,
                                        SelectionsOf(response.data.record_id))
         /\ \A sels \in Reorderings :
                response.data = SummaryData(response.data.record_id, sels)
    /\ CausesOk =>
         /\ response.data = CausesData(response.data.record_id,
                                       SelectionsOf(response.data.record_id))
         /\ \A sels \in Reorderings :
                SameUpToTies(response.data, CausesData(response.data.record_id, sels))

\* a causes analysis of three selections whose tag_distribution places two
\* equal-count tags the other way round when two rows are enumerated in the
\* other order
C12_Witness ==
    /\ CausesOk
    /\ Len(AnalysedIds) >= 3
    /\ \E sels \in Reorderings :
         LET other == CausesData(response.data.record_id, sels)
         IN  /\ other.tag_distribution # response.data.tag_distribution
             /\ other.tag_distribution[1].count > other.tag_distribution[2].count

RecommendationsOk == response.op = "recommendations" /\ response.code = 200

\* the returned recommendations of a category
OfCategory(category) ==
    LET InCategory(r) == r.category = category
    IN  SelectSeq(response.data.recommendations, InCategory)

\* C13: the volume rule emits exactly one recommendation for every total:
\* priority high when total > 30, medium when 15 < total <= 30, low when
\* total <= 15, so that exactly one band applies to every total.
C13_VolumeRule ==
    RecommendationsOk =>
        LET total == Len(AnalysedIds)
            volume == OfCategory("overall health")
        IN  /\ response.data.total_symptoms = total
            /\ Len(volume) = 1
            /\ volume[1].priority \in {"high", "medium", "low"}
            /\ volume[1].priority = "high" <=> total > 30
            /\ volume[1].priority = "medium" <=> (15 < total /\ total <= 30)
            /\ volume[1].priority = "low" <=> total <= 15

\* a record of exactly 30 selections, whose volume recommendation is medium
C13_Witness ==
    /\ RecommendationsOk
    /\ Len(AnalysedIds) = 30
    /\ OfCategory("overall health")[1].priority = "medium"

RecognizedTags == {"toxin", "nutrition", "habit"}

\* the category of the recommendation a recognized tag leads to
TagCategory(tag) ==
    CASE tag = "toxin"     -> "detox"
      [] tag = "nutrition" -> "nutrition improvement"
      [] tag = "habit"     -> "lifestyle"

\* the sets of tags that are the three most frequent ones (all of them when
\* fewer than three occur; several sets when counts are equal at the cut)
TopTagSets ==
    {top \in SUBSET SelectedTags :
        /\ Cardinality(top) = Min(3, Cardinality(SelectedTags))
        /\ \A t \in top : \A u \in SelectedTags \ top :
               CarrierCount(u) <= CarrierCount(t)}

\* C14: for each of the three most frequent tags, if the tag is one of the
\* recognized tags toxin, nutrition and habit, exactly one recommendation of
\* that tag's category is emitted, with priority high if the tag's rounded
\* percentage of the total selections exceeds 25 and medium otherwise; a
\* tag outside the recognized set, and a tag outside the top three, emits no
\* recommendation.
C14_TagRules ==
    RecommendationsOk =>
        \E top \in TopTagSets :
            \A tag \in RecognizedTags :
                LET emitted == OfCategory(TagCategory(tag))
                    percentage == Percentage(CarrierCount(tag), Len(AnalysedIds))
                IN  IF tag \in top
                    THEN /\ Len(emitted) = 1
                         /\ emitted[1].recommendation.percentage = percentage
                         /\ emitted[1].priority =
                                IF percentage > 2500 THEN "high" ELSE "medium"
                    ELSE emitted = <<>>

\* the number of selected symptoms of an area, with or without catalogue row
AreaSelectedCount(area) == Cardinality(AreaSelected(area))

\* the number of selected symptoms of an area that have a catalogue row
AreaCataloguedCount(area) ==
    LET ids == AnalysedIds
    IN  Cardinality({k \in AreaSelected(area) : ids[k] \in Catalogued})

\* the areas whose recommendation was returned
RecommendedAreas ==
    {area \in KnownAreas : OfCategory(recommend_area_info[area].name) # <<>>}

\* C15 as stated: for each of the two areas with the largest selection
\* counts, if that count is > 0 exactly one area recommendation is emitted,
\* naming the area's body system and focus from the fixed table, with
\* priority high if count / total * 100 rounded to two decimals is > 20 and
\* medium otherwise; no recommendation is emitted for an area outside the
\* top two or with count 0.
C15_TopAreasBySelections ==
    RecommendationsOk =>
        LET total == Len(AnalysedIds)
            selected == {area \in KnownAreas : AreaSelectedCount(area) > 0}
        IN  /\ RecommendedAreas \subseteq selected
            /\ Cardinality(RecommendedAreas) = Min(2, Cardinality(selected))
            /\ \A area \in RecommendedAreas :
                 LET emitted == OfCategory(recommend_area_info[area].name)
                     percentage == Percentage(AreaSelectedCount(area), total)
                 IN  /\ Len(emitted) = 1
                     /\ emitted[1].recommendation.name = recommend_area_info[area].name
                     /\ emitted[1].recommendation.focus = recommend_area_info[area].focus
                     /\ emitted[1].recommendation.percentage = percentage
                     /\ emitted[1].priority =
                            IF percentage > 2000 THEN "high" ELSE "medium"
                     /\ \A other \in selected \ RecommendedAreas :
                            AreaSelectedCount(other) <= AreaSelectedCount(area)

\* C15 (amended): the areas are ranked by the number of their selected
\* symptoms that have a catalogue row; each of the two first areas of that
\* ranking with a count > 0 gets exactly one area recommendation, naming
\* the area's body system and focus, with priority high if that count /
\* total selections * 100 rounded to two decimals is > 20 and medium
\* otherwise; no other area gets one.
C15_TopAreas ==
    RecommendationsOk =>
        LET total == Len(AnalysedIds)
            counted == {area \in KnownAreas : AreaCataloguedCount(area) > 0}
        IN  /\ RecommendedAreas \subseteq counted
            /\ Cardinality(RecommendedAreas) = Min(2, Cardinality(counted))
            /\ \A area \in RecommendedAreas :
                 LET emitted == OfCategory(recommend_area_info[area].name)
                     percentage == Percentage(AreaCataloguedCount(area), total)
                 IN  /\ Len(emitted) = 1
                     /\ emitted[1].recommendation.name = recommend_area_info[area].name
                     /\ emitted[1].recommendation.focus = recommend_area_info[area].focus
                     /\ emitted[1].recommendation.percentage = percentage
                     /\ emitted[1].priority =
                            IF percentage > 2000 THEN "high" ELSE "medium"
                     /\ emitted[1].action_items = AreaActionItems(area)
                     /\ \A other \in counted \ RecommendedAreas :
                            AreaCataloguedCount(other) <= AreaCataloguedCount(area)

\* five selections over three or more areas: one recommended area at exactly
\* 20.0 with priority medium, the other one above 20 with priority high
C15_Witness ==
    /\ RecommendationsOk
    /\ Len(AnalysedIds) = 5
    /\ Cardinality({area \in KnownAreas : AreaCataloguedCount(area) > 0}) >= 3
    /\ \E a, b \in RecommendedAreas :
         /\ OfCategory(recommend_area_info[a].name)[1].recommendation.percentage = 2000
         /\ OfCategory(recommend_area_info[a].name)[1].priority = "medium"
         /\ OfCategory(recommend_area_info[b].name)[1].priority = "high"

\* the customer of the record the last response is about
Subject == customers[records[response.data.record_id].customer_id]

\* C16: the demographic rule emits exactly one recommendation for every
\* subject, always with priority medium; its age phrase is young-adult for
\* an age in [18,45], middle-aged for an age in [46,65] and senior for every
\* other age, and it uses the female template when the gender is female and
\* the male template when the gender is male.
C16_DemographicRule ==
    RecommendationsOk =>
        LET emitted == OfCategory("gender specific")
            age == Subject.age
        IN  /\ Len(emitted) = 1
            /\ emitted[1].priority = "medium"
            /\ emitted[1].recommendation.age_group =
                   IF 18 <= age /\ age <= 45 THEN "young adult"
                   ELSE IF 46 <= age /\ age <= 65 THEN "middle-aged"
                   ELSE "senior"
            /\ Subject.gender = "female" =>
                   /\ emitted[1].recommendation.template = "female"
                   /\ emitted[1].action_items[1] = "regular gynaecological check"
            /\ Subject.gender = "male" =>
                   /\ emitted[1].recommendation.template = "male"
                   /\ emitted[1].action_items[1] = "regular cardiovascular check"
            /\ response.data.customer_gender = Subject.gender
            /\ response.data.customer_age = age

\* a woman of 45, addressed as a young adult with the female template
C16_Witness ==
    /\ RecommendationsOk
    /\ Subject.gender = "female"
    /\ Subject.age = 45
    /\ OfCategory("gender specific")[1].recommendation =
           [template |-> "female", age_group |-> "young adult"]

\* the rank of a priority as the specification states it
PriorityRank(priority) ==
    CASE priority = "high" -> 3 [] priority = "medium" -> 2 [] priority = "low" -> 1

\* the position of the rule that emits a recommendation of a category:
\* volume, top tags, top areas, demographic
RuleOf(category) ==
    CASE category = "overall health" -> 1
      [] category \in {TagCategory(tag) : tag \in RecognizedTags} -> 2
      [] category \in {recommend_area_info[area].name : area \in KnownAreas} -> 3
      [] category = "gender specific" -> 4

\* the count by which the rule of a recommendation ranks it among the
\* recommendations of the same rule
RuleCount(category) ==
    CASE RuleOf(category) = 2 ->
            CarrierCount(CHOOSE tag \in RecognizedTags : TagCategory(tag) = category)
      [] RuleOf(category) = 3 ->
            AreaCataloguedCount(CHOOSE area \in KnownAreas :
                                    recommend_area_info[area].name = category)
      [] OTHER -> 0

\* the recommendations of a priority in a list
OfPriority(recommendations, priority) ==
    LET HasPriority(r) == r.priority = priority
    IN  SelectSeq(recommendations, HasPriority)

\* C17: the returned recommendations are in non-increasing order of
\* priority rank (high 3, medium 2, low 1), and recommendations of equal
\* priority are in the order of their emission: volume, top tags in rank
\* order, top areas in rank order, demographic.
C17_SortedStable ==
    RecommendationsOk =>
        LET recs == response.data.recommendations
            emitted == EmittedRecommendations(Subject, SelectionsOf(response.data.record_id))
        IN  /\ \A i, j \in 1..Len(recs) :
                 i < j =>
                    /\ PriorityRank(recs[i].priority) >= PriorityRank(recs[j].priority)
                    /\ recs[i].priority = recs[j].priority =>
                          /\ RuleOf(recs[i].category) <= RuleOf(recs[j].category)
                          /\ RuleOf(recs[i].category) = RuleOf(recs[j].category) =>
                                RuleCount(recs[i].category) >= RuleCount(recs[j].category)
            /\ Len(recs) = Len(emitted)
            /\ \A priority \in {"high", "medium", "low"} :
                 OfPriority(recs, priority) = OfPriority(emitted, priority)

\* a list that the sort rearranged: the low volume recommendation, emitted
\* first, is returned last, after two high and three medium recommendations
\* that kept their order
C17_Witness ==
    /\ RecommendationsOk
    /\ LET recs == response.data.recommendations
       IN  /\ Len(recs) >= 6
           /\ recs[Len(recs)].category = "overall health"
           /\ Len(OfPriority(recs, "high")) >= 2
           /\ Len(OfPriority(recs, "medium")) >= 3
           /\ \E i \in 1..(Len(recs) - 1) :
                /\ recs[i].priority = recs[i + 1].priority
                /\ RuleOf(recs[i].category) = 2
                /\ RuleOf(recs[i + 1].category) = 3

\* the first two action items of the n-th recommendation of a list, none
\* when the list is shorter
FirstTwoItems(recommendations, n) ==
    IF n <= Len(recommendations)
    THEN SubSeq(recommendations[n].action_items, 1,
                Min(2, Len(recommendations[n].action_items)))
    ELSE <<>>

\* C18: the action plan's immediate list is the concatenation, in list
\* order, of the first 2 action items of each of the first 2 high-priority
\* recommendations; its short_term list that of the first 2 action items of
\* each of the first 3 medium-priority recommendations; its long_term list
\* is the same 3 items for every input; hence immediate has at most 4
\* items, short_term at most 6, and low-priority recommendations contribute
\* nothing.
C18_ActionPlan ==
    RecommendationsOk =>
        LET recs == response.data.recommendations
            plan == response.data.action_plan
            high == OfPriority(recs, "high")
            medium == OfPriority(recs, "medium")
            low == OfPriority(recs, "low")
        IN  /\ plan.immediate_actions =
                   FirstTwoItems(high, 1) \o FirstTwoItems(high, 2)
            /\ plan.short_term_goals =
                   FirstTwoItems(medium, 1) \o FirstTwoItems(medium, 2)
                       \o FirstTwoItems(medium, 3)
            /\ plan.long_term_strategies =
                   <<"build healthy habits and keep them",
                     "regular health checks and assessment",
                     "adjust the conditioning plan to the body's state">>
            /\ Len(plan.immediate_actions) <= 4
            /\ Len(plan.short_term_goals) <= 6
            /\ \A i \in 1..Len(low) :
                 Range(low[i].action_items) \cap
                     (Range(plan.immediate_actions) \cup Range(plan.short_term_goals)
                         \cup Range(plan.long_term_strategies)) = {}

\* three high and four medium recommendations: the third high and the
\* fourth medium one are left out of the plan, which holds 4 and 6 items
C18_Witness ==
    /\ RecommendationsOk
    /\ Len(OfPriority(response.data.recommendations, "high")) = 3
    /\ Len(OfPriority(response.data.recommendations, "medium")) = 4
    /\ Len(response.data.action_plan.immediate_actions) = 4
    /\ Len(response.data.action_plan.short_term_goals) = 6

\* the body of the response the same route returns for the two records of
\* the last comparison in the other order
Swapped ==
    IF response.op = "compare_records"
    THEN CompareRecordsData(response.data.record2_id, response.data.record1_id)
    ELSE CompareTwoRecordsData(response.data.record_b_id, response.data.record_a_id)

\* C19: the comparison is antisymmetric under swapping its arguments:
\* added(A,B) = removed(B,A), removed(A,B) = added(B,A) and common(A,B) =
\* common(B,A); every per-area change and the net_change of compare(B,A) are
\* the negations of those of compare(A,B).
C19_Antisymmetric ==
    /\ CompareRecordsOk =>
         /\ response.data.added_symptoms = Swapped.removed_symptoms
         /\ response.data.removed_symptoms = Swapped.added_symptoms
         /\ response.data.common_symptoms = Swapped.common_symptoms
         /\ response.data.visualization_data.change_chart[1].count =
                Swapped.visualization_data.change_chart[2].count
         /\ response.data.visualization_data.change_chart[2].count =
                Swapped.visualization_data.change_chart[1].count
         /\ response.data.visualization_data.change_chart[3].count =
                Swapped.visualization_data.change_chart[3].count
         /\ response.data.comparison_summary.net_change =
                -Swapped.comparison_summary.net_change
         /\ \A area \in KnownAreas :
                response.data.area_changes[area].change =
                    -Swapped.area_changes[area].change
    /\ CompareTwoRecordsOk =>
         /\ response.data.added_count = Swapped.removed_count
         /\ response.data.removed_count = Swapped.added_count
         /\ response.data.common_count = Swapped.common_count
         /\ response.data.net_change = -Swapped.net_change
         /\ \A area \in KnownAreas :
                response.data.area_changes[area].change =
                    -Swapped.area_changes[area].change

\* a comparison of two different records with symptoms added, removed and
\* common, one area growing, another shrinking, and a net change
C19_Witness ==
    /\ CompareRecordsOk
    /\ response.data.record1_id # response.data.record2_id
    /\ response.data.added_symptoms # {}
    /\ response.data.removed_symptoms # {}
    /\ response.data.common_symptoms # {}
    /\ response.data.comparison_summary.net_change # 0
    /\ \E a, b \in KnownAreas :
         /\ response.data.area_changes[a].change > 0
         /\ response.data.area_changes[b].change < 0

\* the last comparison compared a selection set with itself
ComparedWithItself ==
    /\ CompareRecordsOk \/ CompareTwoRecordsOk
    /\ ComparedA = ComparedB

\* every area of the returned area_changes is unchanged
AllAreasUnchanged ==
    \A area \in KnownAreas :
        /\ response.data.area_changes[area].change = 0
        /\ response.data.area_changes[area].percentage_change = 0
        /\ response.data.area_changes[area].trend = "stable"

\* C20 as stated: compare(A, A) returns empty added and removed, common = A,
\* net_change 0, overall_trend stable, and for each of the six areas change
\* 0, percentage_change 0 and trend stable.
C20_SelfCompareReturnsA ==
    (ComparedWithItself /\ CompareRecordsOk) =>
        /\ response.data.added_symptoms = {}
        /\ response.data.removed_symptoms = {}
        /\ DetailIds(response.data.common_symptoms) = ComparedA
        /\ ReportedCounts.net_change = 0
        /\ ReportedCounts.overall_trend = "stable"
        /\ AllAreasUnchanged

\* C20 (amended): compare(A, A) reports no added and no removed symptom and
\* |A| common ones, net_change 0, overall_trend stable, and for each of the
\* six areas change 0, percentage_change 0 and trend stable; the returned
\* added and removed lists are empty and the returned common list names
\* exactly the ids of A that have a catalogue row.
C20_SelfCompare ==
    ComparedWithItself =>
        /\ ReportedCounts.added = 0
        /\ ReportedCounts.removed = 0
        /\ ReportedCounts.common = Cardinality(ComparedA)
        /\ ReportedCounts.net_change = 0
        /\ ReportedCounts.overall_trend = "stable"
        /\ AllAreasUnchanged
        /\ CompareRecordsOk =>
             /\ response.data.added_symptoms = {}
             /\ response.data.removed_symptoms = {}
             /\ DetailIds(response.data.common_symptoms) = ComparedA \cap Catalogued

\* two records holding the same three symptoms, one of them without a
\* catalogue row, compared: three common symptoms reported, two listed
C20_Witness ==
    /\ CompareRecordsOk
    /\ response.data.record1_id # response.data.record2_id
    /\ ComparedA = {1, 55, 56}
    /\ ComparedB = {1, 55, 56}
    /\ ReportedCounts.common = 3
    /\ DetailIds(response.data.common_symptoms) = {1, 56}

\* the entry of an area in the returned area_changes, under the field names
\* of compare_two_records
ReportedArea(area) ==
    LET entry == response.data.area_changes[area]
    IN  IF response.op = "compare_records"
        THEN [count_a |-> entry.count1, count_b |-> entry.count2,
              change |-> entry.change,
              percentage_change |-> entry.percentage_change,
              trend |-> entry.trend]
        ELSE [count_a |-> entry.count_a, count_b |-> entry.count_b,
              change |-> entry.change,
              percentage_change |-> entry.percentage_change,
              trend |-> entry.trend]

\* the number of ids of a selection set the band table puts in an area
InBandCount(ids, area) ==
    Cardinality({id \in ids : \E b \in BandsOf(id) : Bands[b].area = area})

\* C21: for each of the six areas the comparison reports count_a and count_b
\* as the numbers of selections of each side classified to that area,
\* change = count_b - count_a, and percentage_change = round(change /
\* count_a * 100, 2) when count_a > 0; when count_a = 0 percentage_change is
\* 100 if change > 0 and 0 otherwise (no division by zero occurs: every
\* comparison of two records of one customer returns the six entries).
C21_AreaChange ==
    (CompareRecordsOk \/ CompareTwoRecordsOk) =>
        /\ DOMAIN response.data.area_changes = KnownAreas
        /\ \A area \in KnownAreas :
             LET entry == ReportedArea(area)
             IN  /\ entry.count_a = InBandCount(ComparedA, area)
                 /\ entry.count_b = InBandCount(ComparedB, area)
                 /\ entry.change = entry.count_b - entry.count_a
                 /\ entry.count_a > 0 =>
                      IsRoundedPct(entry.percentage_change, entry.change,
                                   entry.count_a)
                 /\ (entry.count_a = 0 /\ entry.change > 0) =>
                      entry.percentage_change = 10000
                 /\ (entry.count_a = 0 /\ entry.change <= 0) =>
                      entry.percentage_change = 0

\* a comparison on the reduced route in which the red area shrinks from
\* three selections to one (-66.67) and the green area appears (100)
C21_Witness ==
    /\ CompareTwoRecordsOk
    /\ ReportedArea("red").count_a = 3
    /\ ReportedArea("red").count_b = 1
    /\ ReportedArea("red").percentage_change = -6667
    /\ ReportedArea("green").count_a = 0
    /\ ReportedArea("green").count_b = 1
    /\ ReportedArea("green").percentage_change = 10000
    /\ ReportedArea("blue").count_a = 0
    /\ ReportedArea("blue").percentage_change = 0

\* the label the three-way sign rule gives a change
SignLabel(change) ==
    CASE change < 0 -> "improving"
      [] change > 0 -> "worsening"
      [] change = 0 -> "stable"

\* C22: every trend label follows the same three-way sign rule: a per-area
\* trend is improving if change < 0, worsening if change > 0 and stable if
\* change = 0, and the overall trend applies the same rule to
\* net_change = len(B) - len(A).
C22_TrendLabels ==
    (CompareRecordsOk \/ CompareTwoRecordsOk) =>
        /\ \A area \in KnownAreas :
             ReportedArea(area).trend = SignLabel(ReportedArea(area).change)
        /\ ReportedCounts.net_change =
               Cardinality(ComparedB) - Cardinality(ComparedA)
        /\ ReportedCounts.overall_trend = SignLabel(ReportedCounts.net_change)

\* a comparison with one area improving, one worsening and the others
\* stable, the selection as a whole shrinking
C22_Witness ==
    /\ CompareRecordsOk
    /\ ReportedArea("red").trend = "improving"
    /\ ReportedArea("green").trend = "worsening"
    /\ ReportedArea("white").trend = "stable"
    /\ ReportedArea("white").change = 0
    /\ ReportedCounts.net_change < 0
    /\ ReportedCounts.overall_trend = "improving"

\* C23: the comparison summary reports improvement_rate = round(|removed| /
\* |A| * 100, 2) and worsening_rate = round(|added| / |A| * 100, 2), both 0
\* when A is empty; improvement_rate never exceeds 100.
C23_Rates ==
    CompareRecordsOk =>
        LET A == ComparedA
            B == ComparedB
            summary == response.data.comparison_summary
        IN  /\ A # {} =>
                 /\ IsRoundedPct(summary.improvement_rate,
                                 Cardinality(A \ B), Cardinality(A))
                 /\ IsRoundedPct(summary.worsening_rate,
                                 Cardinality(B \ A), Cardinality(A))
            /\ A = {} =>
                 /\ summary.improvement_rate = 0
                 /\ summary.worsening_rate = 0
            /\ summary.improvement_rate <= 10000
            /\ summary.improvement_rate >= 0
            /\ summary.worsening_rate >= 0

\* {1,2,3} compared with {3,4,56}: two of three symptoms removed and two
\* added, both rates 66.67
C23_Witness ==
    /\ CompareRecordsOk
    /\ ComparedA = {1, 2, 3}
    /\ ComparedB = {3, 4, 56}
    /\ response.data.comparison_summary.improvement_rate = 6667
    /\ response.data.comparison_summary.worsening_rate = 6667

\* the two submissions a comparison request names are stored
BothStored(id1, id2) == id1 \in DOMAIN records /\ id2 \in DOMAIN records

\* they are stored and belong to different subjects
CrossSubject(id1, id2) ==
    /\ BothStored(id1, id2)
    /\ records[id1].customer_id # records[id2].customer_id

\* the response is an error of the given code that carries no data
ErrorOnly(resp, code) == resp.code = code /\ DOMAIN resp = {"op", "code"}

\* the two submissions a returned comparison names
ComparedRecords ==
    IF response.op = "compare_records"
    THEN <<response.data.record1_id, response.data.record2_id>>
    ELSE <<response.data.record_a_id, response.data.record_b_id>>

\* a comparison result was returned for two stored submissions of one subject
ResultForOneSubject ==
    (response.op \in {"compare_records", "compare_two_records"}
        /\ "data" \in DOMAIN response) =>
            /\ response.code = 200
            /\ BothStored(ComparedRecords[1], ComparedRecords[2])
            /\ ~CrossSubject(ComparedRecords[1], ComparedRecords[2])

\* C24: on both comparison routes, a request whose two submissions belong to
\* different subjects fails with a 400 client error carrying no comparison
\* data, and a comparison result is produced only when both submissions
\* exist and share a subject (a missing submission yields 404 before any
\* comparison).
C24_CrossSubject ==
    [][/\ response'.op = "compare_records" =>
             \A id1, id2 \in CompareRecordIds :
                /\ (CrossSubject(id1, id2) /\ compare_records(id1, id2)) =>
                       ErrorOnly(response', 400)
                /\ (~BothStored(id1, id2) /\ compare_records(id1, id2)) =>
                       ErrorOnly(response', 404)
       /\ response'.op = "compare_two_records" =>
             \A id1, id2 \in CompareRecordIds :
                /\ (CrossSubject(id1, id2) /\ compare_two_records(id1, id2)) =>
                       ErrorOnly(response', 400)
                /\ (~BothStored(id1, id2) /\ compare_two_records(id1, id2)) =>
                       ErrorOnly(response', 404)
       /\ ResultForOneSubject']_vars

\* a comparison of the records of two different customers was refused
C24_Witness ==
    /\ response.op = "compare_records"
    /\ ErrorOnly(response, 400)
    /\ CrossSubject(1, 3)

\* the gynaecological band of the eligibility rule
Gynaecological(id) == 260 <= id /\ id <= 300

\* the request bodies of SpecStore that are complete and well-formed: a
\* gender, an age and a contact the handlers accept, and a non-empty list of
\* different ids of the catalogue range
WellFormedRequests ==
    {data \in SubmitRequests :
        /\ {"name", "gender", "age", "contact", "selected_symptoms"} \subseteq DOMAIN data
        /\ data.gender \in {"male", "female"}
        /\ data.age \in 1..120
        /\ data.contact \in {Phone1, Email1, Phone1Newline}
        /\ data.selected_symptoms # <<>>
        /\ \A i \in 1..Len(data.selected_symptoms) :
              /\ InCatalogueRange(data.selected_symptoms[i])
              /\ \A j \in 1..Len(data.selected_symptoms) :
                    i # j => data.selected_symptoms[i] # data.selected_symptoms[j]}

\* the ids of the rows stored for a record, in the order of the rows
StoredIds(record_id) ==
    LET rows == SelectionsOf(record_id)
    IN  [i \in 1..Len(rows) |-> rows[i].symptom_id]

\* an outcome that leaves the three tables as they are
StoresNothing(outcome) ==
    /\ outcome.customers = customers
    /\ outcome.records = records
    /\ outcome.selections = selections

\* an outcome that stores the submission as a new record
Accepted(outcome, data) ==
    /\ outcome.response.code = 200
    /\ LET record_id == outcome.response.data.record_id
           rows == SelectSeq(outcome.selections,
                             LAMBDA row : row.record_id = record_id)
       IN  /\ record_id \notin DOMAIN records
           /\ DOMAIN outcome.records = DOMAIN records \cup {record_id}
           /\ [i \in 1..Len(rows) |-> rows[i].symptom_id] = data.selected_symptoms

\* C25: a record submission with gender male whose selected ids include any
\* id in [260,300] is rejected with a 422 error and stores no customer,
\* record or selection; the same selection list submitted with gender
\* female is accepted, and a male submission with no id in [260,300] (e.g.
\* {1,5,10}) is accepted.  (In every state of the store, for every
\* well-formed request.)
C25_GenderEligibility ==
    \A data \in WellFormedRequests : \A outcome \in SubmitOutcomes(data) :
        IF /\ data.gender = "male"
           /\ \E i \in 1..Len(data.selected_symptoms) :
                 Gynaecological(data.selected_symptoms[i])
        THEN ErrorOnly(outcome.response, 422) /\ StoresNothing(outcome)
        ELSE Accepted(outcome, data)

\* a record of the symptoms 1, 5 and 260 has been stored for a female
\* customer
C25_Witness ==
    /\ response.op = "submit"
    /\ response.code = 200
    /\ StoredIds(response.data.record_id) = <<1, 5, 260>>
    /\ customers[response.data.customer_id].gender = "female"
    /\ \A id \in DOMAIN customers : customers[id].gender = "female"

\* the stored gender of the subject a stored submission belongs to
SubjectGender(record_id) == customers[records[record_id].customer_id].gender

\* C26: after any sequence of record submissions, customer creations,
\* customer updates and deletions, no stored submission that belongs to a
\* subject whose stored gender is male contains a selection with an id in
\* [260,300]; this covers submissions that reuse an existing customer found
\* by contact and later changes of a customer's gender.
C26_NoMaleGynaecological ==
    \A i \in 1..Len(selections) :
        LET row == selections[i]
        IN  (/\ row.record_id \in DOMAIN records
             /\ records[row.record_id].customer_id \in DOMAIN customers
             /\ SubjectGender(row.record_id) = "male")
                => ~Gynaecological(row.symptom_id)

\* the request bodies of SpecStore that pass every validation and name a
\* symptom twice
RepeatedRequests ==
    {data \in SubmitRequests :
        /\ {"name", "gender", "age", "contact", "selected_symptoms"} \subseteq DOMAIN data
        /\ data.gender \in {"male", "female"}
        /\ data.age \in 1..120
        /\ data.contact \in {Phone1, Email1, Phone1Newline}
        /\ \A i \in 1..Len(data.selected_symptoms) :
              /\ InCatalogueRange(data.selected_symptoms[i])
              /\ data.gender = "male" => ~Gynaecological(data.selected_symptoms[i])
        /\ \E i, j \in 1..Len(data.selected_symptoms) :
              i < j /\ data.selected_symptoms[i] = data.selected_symptoms[j]}

\* C27: a record submission is all-or-nothing: if storing fails after
\* validation (because selected_symptoms contains the same id twice,
\* violating the one-selection-per-symptom-per-record uniqueness
\* constraint), the request returns a 500 error and the store is left
\* exactly as before the request, with no new customer, record or
\* selection.  (In every state of the store, for every such request.)
C27_AllOrNothing ==
    /\ RepeatedRequests # {}
    /\ \A data \in RepeatedRequests : \A outcome \in SubmitOutcomes(data) :
          ErrorOnly(outcome.response, 500) /\ StoresNothing(outcome)

\* a submission has failed with 500 in a store that holds one customer with
\* one record of three selections, and no more
C27_Witness ==
    /\ response.op = "submit"
    /\ response.code = 500
    /\ DOMAIN customers = {1}
    /\ DOMAIN records = {1}
    /\ Len(selections) = 3

\* C28: in every reachable state of the store, after any sequence of
\* successful or failed record submissions and record or customer
\* deletions, each stored submission's symptom_count equals the number of
\* selections stored for it, and no selection refers to a submission that
\* no longer exists.
C28_SymptomCount ==
    /\ \A record_id \in DOMAIN records :
          records[record_id].symptom_count = Len(SelectionsOf(record_id))
    /\ \A i \in 1..Len(selections) : selections[i].record_id \in DOMAIN records

\* the first of two records has been deleted; the second is left with its
\* three selections
C28_Witness ==
    /\ response.op = "delete_record"
    /\ response.code = 200
    /\ response.data.deleted_selections = 1
    /\ DOMAIN records = {2}
    /\ records[2].symptom_count = 3
    /\ Len(selections) = 3

\* C29: for every non-empty selection set whose ids all lie in [1,300],
\* overall_risk_level is medium or high and never low; overall_risk_level is
\* low only for the empty selection set.
C29_NeverLowWithSelections ==
    (SummaryOk /\ \A i \in 1..Len(AnalysedIds) : InCatalogueRange(AnalysedIds[i])) =>
        /\ AnalysedIds # <<>> => response.data.overall_risk_level \in {"medium", "high"}
        /\ AnalysedIds = <<>> => response.data.overall_risk_level = "low"
        /\ response.data.overall_risk_level = "low" <=> AnalysedIds = <<>>

\* seven selections, two in the red area and one in each other area: only
\* the red area is above 15 (28.57), and the overall risk is medium
C29_Witness ==
    /\ SummaryOk
    /\ Len(AnalysedIds) = 7
    /\ \A i \in 1..Len(AnalysedIds) : InCatalogueRange(AnalysedIds[i])
    /\ DistributionEntry("red").percentage = 2857
    /\ \A area \in KnownAreas \ {"red"} : DistributionEntry(area).percentage = 1429
    /\ response.data.overall_risk_level = "medium"

\* the number of returned recommendations the rule of the given position
\* emitted
EmittedBy(rule) ==
    Cardinality({i \in 1..Len(response.data.recommendations) :
                    RuleOf(response.data.recommendations[i].category) = rule})

\* C30: for every input the recommendation list has between 2 and 7 entries
\* (one volume, at most three tag, at most two area, one demographic), so it
\* is never empty and overall_advice is always defined; after sorting, its
\* first entry never has priority low, and a low-priority volume
\* recommendation is always the last entry.
C30_ListShape ==
    RecommendationsOk =>
        LET recs == response.data.recommendations
        IN  /\ 2 <= Len(recs) /\ Len(recs) <= 7
            /\ EmittedBy(1) = 1
            /\ EmittedBy(2) <= 3
            /\ EmittedBy(3) <= 2
            /\ EmittedBy(4) = 1
            /\ Len(recs) = EmittedBy(1) + EmittedBy(2) + EmittedBy(3) + EmittedBy(4)
            /\ response.data.overall_advice.count = Len(recs)
            /\ response.data.overall_advice.category = recs[1].category
            /\ recs[1].priority # "low"
            /\ \A i \in 1..Len(recs) :
                  (recs[i].priority = "low" /\ recs[i].category = "overall health")
                      => i = Len(recs)

\* the shortest list: a record whose only selection has no catalogue row
\* gets the demographic recommendation followed by the low volume
\* recommendation
C30_Witness ==
    /\ RecommendationsOk
    /\ Len(AnalysedIds) = 1
    /\ Len(response.data.recommendations) = 2
    /\ response.data.recommendations[1].category = "gender specific"
    /\ response.data.recommendations[2].category = "overall health"
    /\ response.data.recommendations[2].priority = "low"
    /\ response.data.overall_advice = [count |-> 2, category |-> "gender specific"]

====
